---- MODULE Spec2Model ----
(***************************************************************************)
(* Model of the whisper.cpp bridge of ivrit_ai_gui and of its callers:     *)
(* the model cache, the transcription cache, the callback registry, the   *)
(* engine facade NewWhisperCGOEngine / TranscribeWithTranslation / Close / *)
(* ClearModelCache, the progress polling goroutine, and the GUI pipeline   *)
(* with its worker, its channels and its UI handler.                       *)
(***************************************************************************)
EXTENDS Integers, Sequences, FiniteSets, TLC

(* ------------------------------- bounds -------------------------------- *)
\* native contexts that can be loaded in one run of the model
MaxHandles == 2
\* NewWhisperCGOEngine calls, all callers together
MaxNews == 2
\* TranscribeWithTranslation calls, all callers together
MaxCalls == 2
\* segments the native engine produces in one whisper_full call
MaxSegs == 2
\* foreign progress events during one whisper_full call
MaxEvents == 3
\* ticks of the polling goroutine during one invocation
MaxTicks == 3
\* ClearModelCache calls
MaxClears == 1
\* GUI pipelines started
MaxRuns == 2
\* Transcribe calls of the single caller with both callbacks
MaxRelayCalls == 2
\* NewWhisperCGOEngine / Transcribe calls next to the teardown
MaxLoads == 2
MaxTeardownCalls == 1
\* NewWhisperCGOEngine / Transcribe calls on one audio file and one model
MaxCacheNews == 2
MaxCacheCalls == 3
\* NewWhisperCGOEngine / Transcribe calls with progress callbacks, and the
\* progress events and ticks of each
MaxRegistryNews == 2
MaxRegistryCalls == 2
MaxRegistryEvents == 1
\* capacity of the GUI's segment channel, scaled down from the 100 of
\* make(chan Segment, 100) so that a full channel happens
SegmentChanCap == 1
\* segments of a list handed to FormatOutput, and the largest speaker id
MaxFormatSegs == 3
MaxSpeaker == 2
\* segments the native engine produces for the command line
MaxCLISegs == 2
\* NewWhisperCGOEngine / Transcribe calls and progress events next to the
\* teardown, with progress callbacks and write-backs
MaxLockNews == 2
MaxLockCalls == 1
MaxLockEvents == 1
\* NewWhisperCGOEngine / Transcribe calls with and without progress callbacks,
\* and the progress events of each
MaxSlotNews == 2
MaxSlotCalls == 2
MaxSlotEvents == 1
\* NewWhisperCGOEngine / Transcribe calls with polling goroutines, and the
\* progress events and ticks of each
MaxPollNews == 2
MaxPollCalls == 2
MaxPollEvents == 1
MaxPollTicks == 1
\* GUI pipelines started next to the Stop button, and the segments of each
MaxStopRuns == 1
MaxStopSegs == 1

(* ------------------------------ constants ------------------------------ *)
\* sampleRate != 16000 is rejected
RequiredSampleRate == 16000
\* progress messages are emitted for 0 < p <= 100
MaxPercent == 100
\* t0 / 100.0 : centiseconds to seconds
CentisPerSecond == 100

\* the concurrent callers (goroutines running the CLI/GUI pipeline)
Procs == {1, 2}
\* the single caller of the command line
CLIMode == 1
Handles == 1..MaxHandles
\* the teardown caller (ClearModelCache), as a lock owner
Teardown == 0
NoOwner == -1

\* the model ids the command line accepts
validModels == {"large-v3", "turbo", "base"}
\* the model ids the concurrent callers use, and the model file GetModelPath
\* resolves an id to
ModelIDs == {"turbo", "base"}
ModelPathOf(id) ==
    IF id = "turbo" THEN "ggml-large-v3-turbo-ivrit.bin"
    ELSE IF id = "large-v3" THEN "ggml-large-v3-ivrit.bin"
    ELSE "ggml-base.bin"
ModelPaths == {ModelPathOf(id) : id \in ModelIDs}
\* every model file GetModelPath can return
KnownPaths == {ModelPathOf(id) : id \in validModels}
\* environment: the model files present on disk, and a path with no file
MissingPath == "ggml-missing.bin"
\* a disk on which every path names a file
modelFiles_Any == KnownPaths \cup {MissingPath}
modelFiles == KnownPaths
\* the keys the model cache map is asked for
CachePaths == KnownPaths \cup {MissingPath}
AudioPaths == {"a.wav"}
\* translation targets: none, the one whisper.cpp supports
TranslateTargets == {"", "en"}
\* values the foreign progress callback may store
ProgressValues == {0, 50, 101}
\* sample rates readWAVFile may report
SampleRates == {RequiredSampleRate, 44100}

NoHandle == 0
NoEntry == [present |-> FALSE, segments |-> <<>>]
Entry(list) == [present |-> TRUE, segments |-> list]
NoEngine == [model |-> NoHandle, modelPath |-> "", fromCache |-> FALSE]

\* transcriptionCacheKey{audioPath, modelID}
transcriptionCacheKey(audioPath, modelID) == <<audioPath, modelID>>
CacheKeys == AudioPaths \X validModels

(* -------------------------- the native engine -------------------------- *)
\* float64(t)/100.0, kept exact as <<whole seconds, hundredths>>
CentisToSeconds(t) == <<t \div CentisPerSecond, t % CentisPerSecond>>

\* segment k of a native result whose turn flags are `turns`; its text is one
\* Hebrew word
SegmentStart(k) == (k - 1) * 150
RawSegment(turns, k) ==
    [t0 |-> SegmentStart(k), t1 |-> SegmentStart(k + 1),
     text |-> <<[lang |-> "he", word |-> k]>>, turnNext |-> turns[k]]

\* the results whisper_full may leave in a context: any number of segments
\* up to MaxSegs, each with its speaker_turn_next flag
NativeResults(maxSegs) ==
    UNION {[1..n -> BOOLEAN] : n \in 0..maxSegs}
RawSegments(turns) == [k \in 1..Len(turns) |-> RawSegment(turns, k)]

(* -------------------------------- state -------------------------------- *)
VARIABLES
    \* modelCache map[string]*cachedModel, NoHandle where there is no entry
    modelCache,
    \* modelCacheMutex: NoOwner, or the caller holding the write lock
    modelCacheMutex,
    \* cachedModel.ctx per handle: "unloaded" (not allocated), "live", "freed"
    ctx,
    \* cachedModel.mutex per handle: NoOwner, or the caller holding it
    mutex,
    \* the turn flags of the result the last whisper_full left in the context
    ctxResult,
    \* next handle whisper_init_from_file_with_params will allocate
    nextHandle,
    \* transcriptionCache map[transcriptionCacheKey][]Segment
    transcriptionCache,
    \* callbackRegistry: token -> the invocation whose progress cell it holds
    callbackRegistry,
    callbackIDCounter,
    \* per caller: control position
    pc,
    \* per caller: the *WhisperCGOEngine it holds
    engine,
    \* per caller: result of its last NewWhisperCGOEngine call
    newResult,
    \* numbers of NewWhisperCGOEngine / Transcribe calls made so far
    news, calls,
    \* per caller: arguments of the running TranscribeWithTranslation
    args,
    \* per caller: locals of the running TranscribeWithTranslation
    callbackID, progressPercent, tempWav, result, i, currentSpeaker, segments,
    \* per caller: value returned by its last TranscribeWithTranslation
    ret,
    \* per caller: the polling goroutine: position, lastProgress, done closed
    poller, lastProgress, done,
    \* per caller: budget counters of progress events and ticker ticks
    events, ticks,
    \* ClearModelCache: position, entry being freed, calls made
    tpc, tpath, clears,
    \* history: what each sink received in the running invocation
    delivered, emitted, polled,
    \* history: native calls, audio preparations, cache lookups of the
    \* running invocation
    nativeCalls, prepares, lookedUp, found,
    \* history: the entry last returned by a finished untranslated call, per
    \* key, and the snapshot each invocation took of it when it started
    returned, prior,
    \* history: the handle the first successful native load created, per
    \* path, and the snapshot each NewWhisperCGOEngine call took of it when it
    \* started
    firstLoaded, priorLoaded,
    \* history: the model cache entry each NewWhisperCGOEngine call found at
    \* its lookup, and the native loads it made
    priorCached, nativeLoads,
    \* GUI: a.workerRunning, a.stopRequested, a.transcriptionSegments,
    \* a.originalSegments
    workerRunning, stopRequested, transcriptionSegments, originalSegments,
    \* GUI, per pipeline: the channels runTranscription made
    segmentChan, doneChan, errorChan,
    \* GUI, per pipeline: the UI handler goroutine and the worker goroutine,
    \* the list the handler is about to store, and the worker's `segments`
    handler, worker, appending, transcribed,
    \* GUI: the pipelines started so far, and the number of each pipeline
    runs, runOf,
    \* history: the pipeline each displayed segment came from, and the list
    \* each pipeline displayed on completion
    shownRuns, completed,
    \* the command line run: its flags, its position, what it printed, its
    \* exit code and whether it wrote the output file
    cli,
    \* the model files under ~/.cache/whisper and the last GetModelPath call
    modelStore

modelVars == <<modelCache, modelCacheMutex, ctx, mutex, ctxResult, nextHandle>>
cacheVars == <<transcriptionCache>>
registryVars == <<callbackRegistry, callbackIDCounter>>
callerVars == <<pc, engine, newResult, news, calls, args>>
localVars == <<callbackID, progressPercent, tempWav, result, i,
               currentSpeaker, segments, ret>>
pollVars == <<poller, lastProgress, done, events, ticks>>
teardownVars == <<tpc, tpath, clears>>
historyVars == <<delivered, emitted, polled, nativeCalls, prepares, lookedUp, found,
                 returned, prior, firstLoaded, priorLoaded, priorCached,
                 nativeLoads>>
\* the GUI state a segment callback leaves alone, and all of it
guiRest == <<workerRunning, stopRequested, transcriptionSegments,
             originalSegments, doneChan, errorChan, handler, worker,
             appending, transcribed, runs, runOf, shownRuns, completed>>
guiVars == <<guiRest, segmentChan>>
engineVars == <<modelVars, cacheVars, registryVars, callerVars, localVars,
                pollVars, teardownVars, historyVars>>
cliVars == <<cli, modelStore>>
vars == <<engineVars, guiVars, cliVars>>

NoArgs == [audioPath |-> "", modelID |-> "", translateTo |-> "",
           progressCallback |-> FALSE, segmentCallback |-> "nil"]
NoRet == [err |-> "none", segments |-> <<>>]
NoAppend == [list |-> <<>>, runs |-> <<>>]
\* the command line run before flag.Parse
NoCLI == [pc |-> "start", help |-> FALSE, input |-> "", model |-> "",
          format |-> "", translate |-> FALSE, lang |-> "",
          keepOriginal |-> FALSE, usage |-> FALSE, error |-> "none",
          exit |-> 0, acquired |-> FALSE, modelPath |-> "", segments |-> <<>>,
          translation |-> [err |-> "none", segments |-> <<>>, requests |-> <<>>],
          output |-> <<>>, written |-> FALSE]

\* no model file has been downloaded and GetModelPath has not been called
NoStore == [file |-> [id \in validModels |-> "absent"], calls |-> 0,
            modelID |-> "", path |-> "", err |-> "none", served |-> "none"]

Init ==
    /\ modelCache = [path \in CachePaths |-> NoHandle]
    /\ modelCacheMutex = NoOwner
    /\ ctx = [h \in Handles |-> "unloaded"]
    /\ mutex = [h \in Handles |-> NoOwner]
    /\ ctxResult = [h \in Handles |-> <<>>]
    /\ nextHandle = 1
    /\ transcriptionCache = [k \in CacheKeys |-> NoEntry]
    /\ callbackRegistry = <<>>
    /\ callbackIDCounter = 1
    /\ pc = [p \in Procs |-> "idle"]
    /\ engine = [p \in Procs |-> NoEngine]
    /\ newResult = [p \in Procs |-> "none"]
    /\ news = 0
    /\ calls = 0
    /\ args = [p \in Procs |-> NoArgs]
    /\ callbackID = [p \in Procs |-> 0]
    /\ progressPercent = [p \in Procs |-> 0]
    /\ tempWav = [p \in Procs |-> FALSE]
    /\ result = [p \in Procs |-> 0]
    /\ i = [p \in Procs |-> 0]
    /\ currentSpeaker = [p \in Procs |-> 0]
    /\ segments = [p \in Procs |-> <<>>]
    /\ ret = [p \in Procs |-> NoRet]
    /\ poller = [p \in Procs |-> "off"]
    /\ lastProgress = [p \in Procs |-> -1]
    /\ done = [p \in Procs |-> FALSE]
    /\ events = [p \in Procs |-> 0]
    /\ ticks = [p \in Procs |-> 0]
    /\ tpc = "idle"
    /\ tpath = ""
    /\ clears = 0
    /\ delivered = [p \in Procs |-> <<>>]
    /\ emitted = [p \in Procs |-> <<>>]
    /\ polled = [p \in Procs |-> <<>>]
    /\ nativeCalls = [p \in Procs |-> 0]
    /\ prepares = [p \in Procs |-> 0]
    /\ lookedUp = [p \in Procs |-> FALSE]
    /\ found = [p \in Procs |-> NoEntry]
    /\ returned = [k \in CacheKeys |-> NoEntry]
    /\ prior = [p \in Procs |-> NoEntry]
    /\ firstLoaded = [path \in CachePaths |-> NoHandle]
    /\ priorLoaded = [p \in Procs |-> NoHandle]
    /\ priorCached = [p \in Procs |-> NoHandle]
    /\ nativeLoads = [p \in Procs |-> 0]
    /\ workerRunning = FALSE
    /\ stopRequested = FALSE
    /\ transcriptionSegments = <<>>
    /\ originalSegments = <<>>
    /\ segmentChan = [p \in Procs |-> <<>>]
    /\ doneChan = [p \in Procs |-> NoEntry]
    /\ errorChan = [p \in Procs |-> FALSE]
    /\ handler = [p \in Procs |-> "off"]
    /\ worker = [p \in Procs |-> "off"]
    /\ appending = [p \in Procs |-> NoAppend]
    /\ transcribed = [p \in Procs |-> <<>>]
    /\ runs = 0
    /\ runOf = [p \in Procs |-> 0]
    /\ shownRuns = <<>>
    /\ completed = [p \in Procs |-> <<>>]
    /\ cli = NoCLI
    /\ modelStore = NoStore

(* ------------------------- NewWhisperCGOEngine ------------------------- *)
\* a lookup that never finds the entry
CachedModelFor_Miss(modelPath) == NoHandle
\* cachedMdl, exists := modelCache[modelPath] under the read lock
CachedModelFor(modelPath) == modelCache[modelPath]

\* The argument checks and the cache lookup.  The caller holds no usable
\* engine (none yet, or it closed the one it had).
NewWhisperCGOEngine(p, modelPath, maxNews) ==
    /\ pc[p] = "idle"
    /\ news < maxNews
    /\ modelCacheMutex = NoOwner
    /\ news' = news + 1
    /\ priorLoaded' = [priorLoaded EXCEPT ![p] =
            IF modelPath \in modelFiles THEN firstLoaded[modelPath]
            ELSE NoHandle]
    /\ priorCached' = [priorCached EXCEPT ![p] =
            IF modelPath \in modelFiles THEN modelCache[modelPath]
            ELSE NoHandle]
    /\ nativeLoads' = [nativeLoads EXCEPT ![p] = 0]
    /\ IF modelPath = "" THEN
            /\ newResult' = [newResult EXCEPT ![p] = "model path required"]
            /\ UNCHANGED <<pc, engine>>
       ELSE IF modelPath \notin modelFiles THEN
            /\ newResult' = [newResult EXCEPT ![p] = "model file not found"]
            /\ UNCHANGED <<pc, engine>>
       ELSE IF CachedModelFor(modelPath) # NoHandle THEN
            /\ engine' = [engine EXCEPT ![p] =
                    [model |-> CachedModelFor(modelPath), modelPath |-> modelPath,
                     fromCache |-> TRUE]]
            /\ newResult' = [newResult EXCEPT ![p] = "ok"]
            /\ pc' = [pc EXCEPT ![p] = "ready"]
       ELSE
            /\ engine' = [engine EXCEPT ![p] =
                    [model |-> NoHandle, modelPath |-> modelPath,
                     fromCache |-> FALSE]]
            /\ newResult' = [newResult EXCEPT ![p] = "loading"]
            /\ pc' = [pc EXCEPT ![p] = "load"]
    /\ UNCHANGED <<cliVars, guiVars, modelVars, cacheVars, registryVars, calls, args,
                   localVars, pollVars, teardownVars, delivered, emitted,
                   polled, nativeCalls, prepares, lookedUp, found, returned, prior,
                   firstLoaded>>

\* whisper_init_from_file_with_params, with no lock held: a new context, or
\* nil when the native loader rejects the file
LoadModel(p, ok) ==
    /\ pc[p] = "load"
    /\ IF ok THEN
            /\ nextHandle <= MaxHandles
            /\ ctx' = [ctx EXCEPT ![nextHandle] = "live"]
            /\ engine' = [engine EXCEPT ![p].model = nextHandle]
            /\ nextHandle' = nextHandle + 1
            /\ pc' = [pc EXCEPT ![p] = "insert"]
            /\ firstLoaded' = [firstLoaded EXCEPT ![engine[p].modelPath] =
                    IF @ = NoHandle THEN nextHandle ELSE @]
            /\ UNCHANGED newResult
       ELSE
            /\ engine' = [engine EXCEPT ![p] = NoEngine]
            /\ newResult' = [newResult EXCEPT ![p] = "failed to load model"]
            /\ pc' = [pc EXCEPT ![p] = "idle"]
            /\ UNCHANGED <<ctx, nextHandle, firstLoaded>>
    /\ nativeLoads' = [nativeLoads EXCEPT ![p] = @ + 1]
    /\ UNCHANGED <<cliVars, guiVars, modelCache, modelCacheMutex, mutex, ctxResult,
                   cacheVars, registryVars, news, calls, args, localVars,
                   pollVars, teardownVars, delivered, emitted, polled,
                   nativeCalls, prepares, lookedUp, found, returned, prior,
                   priorLoaded, priorCached>>

\* an insert that keeps the handle another caller inserted
Inserted_KeepExisting(existing, loaded) ==
    IF existing # NoHandle THEN existing ELSE loaded
\* the entry the insert leaves for the path: modelCache[modelPath] = cachedMdl
Inserted(existing, loaded) == loaded

\* modelCache[modelPath] = cachedMdl under the write lock, unconditionally
StoreInCache(p) ==
    /\ pc[p] = "insert"
    /\ modelCacheMutex = NoOwner
    /\ modelCache' = [modelCache EXCEPT ![engine[p].modelPath] =
                            Inserted(@, engine[p].model)]
    /\ newResult' = [newResult EXCEPT ![p] = "ok"]
    /\ pc' = [pc EXCEPT ![p] = "ready"]
    /\ UNCHANGED <<cliVars, guiVars, modelCacheMutex, ctx, mutex, ctxResult, nextHandle,
                   cacheVars, registryVars, engine, news, calls, args,
                   localVars, pollVars, teardownVars, delivered, emitted,
                   polled, nativeCalls, prepares, lookedUp, found, returned, prior,
                   firstLoaded, priorLoaded, priorCached, nativeLoads>>

(* --------------------------------- Close -------------------------------- *)
\* whisper_free on the context of an engine that loaded its model itself;
\* the engine's model reference becomes nil either way
Close(p) ==
    /\ pc[p] = "ready"
    /\ IF ~engine[p].fromCache /\ engine[p].model # NoHandle
            /\ ctx[engine[p].model] # "unloaded"
       THEN ctx' = [ctx EXCEPT ![engine[p].model] = "freed"]
       ELSE UNCHANGED ctx
    /\ engine' = [engine EXCEPT ![p].model = NoHandle]
    /\ pc' = [pc EXCEPT ![p] = "idle"]
    /\ newResult' = [newResult EXCEPT ![p] = "none"]
    /\ args' = [args EXCEPT ![p] = NoArgs]
    /\ ret' = [ret EXCEPT ![p] = NoRet]
    /\ delivered' = [delivered EXCEPT ![p] = <<>>]
    /\ nativeCalls' = [nativeCalls EXCEPT ![p] = 0]
    /\ prepares' = [prepares EXCEPT ![p] = 0]
    /\ lookedUp' = [lookedUp EXCEPT ![p] = FALSE]
    /\ found' = [found EXCEPT ![p] = NoEntry]
    /\ prior' = [prior EXCEPT ![p] = NoEntry]
    /\ priorLoaded' = [priorLoaded EXCEPT ![p] = NoHandle]
    /\ priorCached' = [priorCached EXCEPT ![p] = NoHandle]
    /\ nativeLoads' = [nativeLoads EXCEPT ![p] = 0]
    /\ UNCHANGED <<cliVars, guiVars, modelCache, modelCacheMutex, mutex, ctxResult,
                   nextHandle, cacheVars, registryVars, news, calls,
                   callbackID, progressPercent, tempWav, result, i,
                   currentSpeaker, segments, pollVars, teardownVars, emitted,
                   polled, returned, firstLoaded>>

(* ---------------------------- ClearModelCache --------------------------- *)
\* modelCacheMutex.Lock()
ClearModelCache(maxClears) ==
    /\ tpc = "idle"
    /\ clears < maxClears
    /\ modelCacheMutex = NoOwner
    /\ modelCacheMutex' = Teardown
    /\ clears' = clears + 1
    /\ tpc' = "range"
    /\ UNCHANGED <<cliVars, guiVars, modelCache, ctx, mutex, ctxResult, nextHandle,
                   cacheVars, registryVars, callerVars, localVars, pollVars,
                   tpath, historyVars>>

\* one iteration of the range loop, up to cachedMdl.mutex.Lock()
ClearLockModel(path) ==
    /\ tpc = "range"
    /\ modelCache[path] # NoHandle
    /\ mutex[modelCache[path]] = NoOwner
    /\ mutex' = [mutex EXCEPT ![modelCache[path]] = Teardown]
    /\ tpath' = path
    /\ tpc' = "free"
    /\ UNCHANGED <<cliVars, guiVars, modelCache, modelCacheMutex, ctx, ctxResult,
                   nextHandle, cacheVars, registryVars, callerVars, localVars,
                   pollVars, clears, historyVars>>

\* whisper_free, cachedMdl.mutex.Unlock(), delete(modelCache, path)
ClearFreeModel ==
    /\ tpc = "free"
    /\ ctx' = [ctx EXCEPT ![modelCache[tpath]] = "freed"]
    /\ mutex' = [mutex EXCEPT ![modelCache[tpath]] = NoOwner]
    /\ modelCache' = [modelCache EXCEPT ![tpath] = NoHandle]
    /\ tpath' = ""
    /\ tpc' = "range"
    /\ UNCHANGED <<cliVars, guiVars, modelCacheMutex, ctxResult, nextHandle, cacheVars,
                   registryVars, callerVars, localVars, pollVars, clears,
                   historyVars>>

\* the range loop is over: deferred modelCacheMutex.Unlock()
ClearReturn ==
    /\ tpc = "range"
    /\ \A path \in KnownPaths : modelCache[path] = NoHandle
    /\ modelCacheMutex' = NoOwner
    /\ tpc' = "idle"
    /\ UNCHANGED <<cliVars, guiVars, modelCache, ctx, mutex, ctxResult, nextHandle,
                   cacheVars, registryVars, callerVars, localVars, pollVars,
                   tpath, clears, historyVars>>

(* ---------------------- TranscribeWithTranslation ----------------------- *)
\* the model id whose file an engine was created from (the CLI and the GUI
\* pass the id they resolved the path from)
ModelIDOf(modelPath) == CHOOSE id \in validModels : ModelPathOf(id) = modelPath

\* one mutex for all handles
MutexOf_Global(h) == 1
\* the mutex a handle carries: cachedModel.mutex, one per cachedModel
MutexOf(h) == h

\* a Lock() that does not wait
MutexFree_Always(h) == TRUE
\* e.model.mutex.Lock() returns only when nobody holds the handle's mutex
MutexFree(h) == mutex[MutexOf(h)] = NoOwner

\* a lookup that ignores the entry
CacheHit_Never(translateTo, entry) == FALSE
\* the transcription cache is consulted only without a translation target
CacheHit(translateTo, entry) == translateTo = "" /\ entry.present

CacheKeyOf(p) == transcriptionCacheKey(args[p].audioPath, args[p].modelID)

\* the GUI's segment callback: a send on segmentChan that gives up when the
\* channel is full
SendSegment(chan, seg) ==
    IF Len(chan) < SegmentChanCap THEN Append(chan, seg) ELSE chan

\* segmentCallback(seg), when the caller supplied one
Deliver(p, seg) ==
    /\ delivered' = [delivered EXCEPT ![p] =
            IF args[p].segmentCallback # "nil" THEN Append(@, seg) ELSE @]
    /\ segmentChan' = IF args[p].segmentCallback = "gui"
                      THEN [segmentChan EXCEPT ![p] = SendSegment(@, seg)]
                      ELSE segmentChan

\* TranscribeWithTranslation returns r to its caller
ReturnToCaller(p, r) ==
    /\ ret' = [ret EXCEPT ![p] = r]
    /\ callbackID' = [callbackID EXCEPT ![p] = 0]
    /\ result' = [result EXCEPT ![p] = 0]
    /\ i' = [i EXCEPT ![p] = 0]
    /\ currentSpeaker' = [currentSpeaker EXCEPT ![p] = 0]
    /\ segments' = [segments EXCEPT ![p] = <<>>]
    /\ pc' = [pc EXCEPT ![p] = IF engine[p].model = NoHandle THEN "idle" ELSE "ready"]
    /\ returned' = IF r.err = "none" /\ args[p].translateTo = ""
                   THEN [returned EXCEPT ![CacheKeyOf(p)] = Entry(r.segments)]
                   ELSE returned

\* a failed native call that starts the invocation over
AfterBody_Retry(p) ==
    IF result[p] # 0 THEN "prepare"
    ELSE IF callbackID[p] # 0 THEN "unregister" ELSE "unlock"
\* first deferred call to run once the callback registration was reached
AfterBody(p) == IF callbackID[p] # 0 THEN "unregister" ELSE "unlock"

\* Entry: the nil checks, then the transcription cache lookup under the read
\* lock (only without a translation target).
TranscribeWithTranslation(p, audioPath, translateTo, progressCallback, segmentCallback, maxCalls) ==
    /\ pc[p] = "ready" \/ (pc[p] = "idle" /\ engine[p].modelPath # "")
    /\ calls < maxCalls
    /\ poller[p] = "off"
    /\ LET modelID == ModelIDOf(engine[p].modelPath)
           key == transcriptionCacheKey(audioPath, modelID)
           hit == CacheHit(translateTo, transcriptionCache[key])
       IN
       /\ calls' = calls + 1
       /\ args' = [args EXCEPT ![p] =
               [audioPath |-> audioPath, modelID |-> modelID,
                translateTo |-> translateTo,
                progressCallback |-> progressCallback,
                segmentCallback |-> segmentCallback]]
       /\ callbackID' = [callbackID EXCEPT ![p] = 0]
       /\ progressPercent' = [progressPercent EXCEPT ![p] = 0]
       /\ result' = [result EXCEPT ![p] = 0]
       /\ i' = [i EXCEPT ![p] = 0]
       /\ currentSpeaker' = [currentSpeaker EXCEPT ![p] = 0]
       /\ lastProgress' = [lastProgress EXCEPT ![p] = -1]
       /\ done' = [done EXCEPT ![p] = FALSE]
       /\ events' = [events EXCEPT ![p] = 0]
       /\ ticks' = [ticks EXCEPT ![p] = 0]
       /\ delivered' = [delivered EXCEPT ![p] = <<>>]
       /\ emitted' = [emitted EXCEPT ![p] = <<>>]
       /\ polled' = [polled EXCEPT ![p] = <<>>]
       /\ nativeCalls' = [nativeCalls EXCEPT ![p] = 0]
       /\ prepares' = [prepares EXCEPT ![p] = 0]
       /\ prior' = [prior EXCEPT ![p] =
               IF translateTo = "" THEN returned[key] ELSE NoEntry]
       /\ IF engine[p].model = NoHandle THEN
               /\ ret' = [ret EXCEPT ![p] =
                       [err |-> "whisper context not initialized", segments |-> <<>>]]
               /\ segments' = [segments EXCEPT ![p] = <<>>]
               /\ lookedUp' = [lookedUp EXCEPT ![p] = FALSE]
               /\ found' = [found EXCEPT ![p] = NoEntry]
               /\ UNCHANGED pc
          ELSE
               /\ ret' = [ret EXCEPT ![p] = NoRet]
               /\ lookedUp' = [lookedUp EXCEPT ![p] = (translateTo = "")]
               /\ found' = [found EXCEPT ![p] =
                       IF translateTo = "" THEN transcriptionCache[key] ELSE NoEntry]
               /\ segments' = [segments EXCEPT ![p] =
                       IF hit THEN transcriptionCache[key].segments ELSE <<>>]
               /\ pc' = [pc EXCEPT ![p] = IF hit THEN "replay" ELSE "lock"]
    /\ UNCHANGED <<cliVars, guiVars, modelVars, cacheVars, registryVars, engine,
                   newResult, news, tempWav, poller, teardownVars, returned,
                   firstLoaded, priorLoaded, priorCached, nativeLoads>>

\* Cache hit: one iteration of the replay loop over cachedSegments
ReplayCached(p) ==
    /\ pc[p] = "replay"
    /\ args[p].segmentCallback # "nil"
    /\ i[p] < Len(segments[p])
    /\ Deliver(p, segments[p][i[p] + 1])
    /\ i' = [i EXCEPT ![p] = @ + 1]
    /\ UNCHANGED <<cliVars, guiRest, modelVars, cacheVars, registryVars, callerVars,
                   callbackID, progressPercent, tempWav, result,
                   currentSpeaker, segments, ret, pollVars, teardownVars,
                   emitted, polled, nativeCalls, prepares, lookedUp, found, returned,
                   prior, firstLoaded, priorLoaded, priorCached, nativeLoads>>

\* Cache hit: return cachedSegments, nil
ReturnCached(p) ==
    /\ pc[p] = "replay"
    /\ args[p].segmentCallback = "nil" \/ i[p] = Len(segments[p])
    /\ ReturnToCaller(p, [err |-> "none", segments |-> segments[p]])
    /\ UNCHANGED <<cliVars, guiVars, modelVars, cacheVars, registryVars, engine,
                   newResult, news, calls, args, progressPercent,
                   tempWav, pollVars,
                   teardownVars, delivered, emitted, polled, nativeCalls,
                   prepares, lookedUp, found, prior, firstLoaded, priorLoaded, priorCached, nativeLoads>>

\* e.model.mutex.Lock()
LockModel(p) ==
    /\ pc[p] = "lock"
    /\ MutexFree(engine[p].model)
    /\ mutex' = [mutex EXCEPT ![MutexOf(engine[p].model)] = p]
    /\ pc' = [pc EXCEPT ![p] = "prepare"]
    /\ UNCHANGED <<cliVars, guiVars, modelCache, modelCacheMutex, ctx, ctxResult,
                   nextHandle, cacheVars, registryVars, engine, newResult,
                   news, calls, args, localVars, pollVars, teardownVars,
                   historyVars>>

\* a removal that leaves the file
RemoveTemp_Keep(files, p) == files
\* os.Remove of p's temporary WAV file
RemoveTemp(files, p) == [files EXCEPT ![p] = FALSE]

\* prepareAudioFile: os.CreateTemp, then the external converter succeeds and
\* leaves the temporary WAV file, or fails and the file is removed
PrepareAudioFile(p, ok) ==
    /\ pc[p] = "prepare"
    /\ prepares' = [prepares EXCEPT ![p] = @ + 1]
    /\ IF ok THEN
            /\ tempWav' = [tempWav EXCEPT ![p] = TRUE]
            /\ pc' = [pc EXCEPT ![p] = "read"]
            /\ UNCHANGED ret
       ELSE
            /\ ret' = [ret EXCEPT ![p] =
                    [err |-> "failed to prepare audio", segments |-> <<>>]]
            /\ pc' = [pc EXCEPT ![p] = "unlock"]
            /\ tempWav' = RemoveTemp([tempWav EXCEPT ![p] = TRUE], p)
    /\ UNCHANGED <<cliVars, guiVars, modelVars, cacheVars, registryVars, engine,
                   newResult, news, calls, args, callbackID, progressPercent,
                   result, i, currentSpeaker, segments, pollVars,
                   teardownVars, delivered, emitted, polled, nativeCalls,
                   lookedUp, found, returned, prior, firstLoaded, priorLoaded, priorCached, nativeLoads>>

\* readWAVFile and the sample rate check
ReadWAVFile(p, ok, sampleRate) ==
    /\ pc[p] = "read"
    /\ IF ~ok THEN
            /\ ret' = [ret EXCEPT ![p] =
                    [err |-> "failed to read audio", segments |-> <<>>]]
            /\ pc' = [pc EXCEPT ![p] = "unlock"]
       ELSE IF sampleRate # RequiredSampleRate THEN
            /\ ret' = [ret EXCEPT ![p] =
                    [err |-> "sample rate must be 16000 Hz", segments |-> <<>>]]
            /\ pc' = [pc EXCEPT ![p] = "unlock"]
       ELSE
            /\ pc' = [pc EXCEPT ![p] =
                    IF args[p].progressCallback THEN "register" ELSE "start"]
            /\ UNCHANGED ret
    /\ UNCHANGED <<cliVars, guiVars, modelVars, cacheVars, registryVars, engine,
                   newResult, news, calls, args, callbackID, progressPercent,
                   tempWav, result, i, currentSpeaker, segments, pollVars,
                   teardownVars, historyVars>>

\* a counter that stays where it is
NextToken_Same(counter) == counter
\* callbackIDCounter++
NextToken(counter) == counter + 1

\* the callback registration under the registry lock (the block is entered
\* only with a progress callback)
RegisterCallbacks(p) ==
    /\ pc[p] = "register"
    /\ callbackID' = [callbackID EXCEPT ![p] = callbackIDCounter]
    /\ callbackIDCounter' = NextToken(callbackIDCounter)
    /\ callbackRegistry' =
            [t \in DOMAIN callbackRegistry \cup {callbackIDCounter} |->
                IF t = callbackIDCounter THEN p ELSE callbackRegistry[t]]
    /\ pc' = [pc EXCEPT ![p] = "start"]
    /\ UNCHANGED <<cliVars, guiVars, modelVars, cacheVars, engine, newResult, news,
                   calls, args, progressPercent, tempWav, result, i,
                   currentSpeaker, segments, ret, pollVars, teardownVars,
                   historyVars>>

\* go func() { ... }() with a progress callback, then whisper_full begins
StartWhisperFull(p) ==
    /\ pc[p] = "start"
    /\ poller' = [poller EXCEPT ![p] =
            IF args[p].progressCallback THEN "running" ELSE "off"]
    /\ nativeCalls' = [nativeCalls EXCEPT ![p] = @ + 1]
    /\ pc' = [pc EXCEPT ![p] = "native"]
    /\ UNCHANGED <<cliVars, guiVars, modelVars, cacheVars, registryVars, engine,
                   newResult, news, calls, args, localVars, lastProgress,
                   done, events, ticks, teardownVars, delivered, emitted,
                   polled, prepares, lookedUp, found, returned, prior, firstLoaded,
                   priorLoaded, priorCached, nativeLoads>>

\* a handler that stores the value into every progress cell
StoreProgress_All(registry, cells, t, progress) ==
    [q \in DOMAIN cells |-> progress]
\* the handler's lookup and store: the progress cell of the slot registered
\* under token t receives the value, and an unknown token stores nothing
StoreProgress(registry, cells, t, progress) ==
    IF t \in DOMAIN registry THEN [cells EXCEPT ![registry[t]] = progress]
    ELSE cells

\* whisper_progress_callback_go, called by the native engine during
\* whisper_full when params.progress_callback was set: one atomic store into
\* the progress cell of the slot registered under the token
whisper_progress_callback_go(p, progress, maxEvents) ==
    /\ pc[p] = "native"
    /\ args[p].progressCallback
    /\ events[p] < maxEvents
    /\ events' = [events EXCEPT ![p] = @ + 1]
    /\ progressPercent' =
            StoreProgress(callbackRegistry, progressPercent, callbackID[p], progress)
    /\ UNCHANGED <<cliVars, guiVars, modelVars, cacheVars, registryVars, callerVars,
                   callbackID, tempWav, result, i, currentSpeaker, segments,
                   ret, poller, lastProgress, done, ticks, teardownVars,
                   historyVars>>

\* a poller that forwards every value it reads
Changed_Always(currentProgress, last) == TRUE
\* currentProgress != lastProgress
Changed(currentProgress, last) == currentProgress # last

\* the message the polling goroutine sends for a progress value, if any
ShouldReport(currentProgress) == currentProgress > 0 /\ currentProgress <= MaxPercent

\* the polling goroutine, case <-ticker.C.  After close(done) the select may
\* still take this case when the ticker is ready too.
PollTick(p, maxTicks) ==
    /\ poller[p] = "running"
    /\ ticks[p] < maxTicks
    /\ ticks' = [ticks EXCEPT ![p] = @ + 1]
    /\ LET currentProgress == progressPercent[p] IN
       IF Changed(currentProgress, lastProgress[p]) THEN
            /\ lastProgress' = [lastProgress EXCEPT ![p] = currentProgress]
            /\ polled' = [polled EXCEPT ![p] = Append(@, currentProgress)]
            /\ emitted' = [emitted EXCEPT ![p] =
                    IF ShouldReport(currentProgress)
                    THEN Append(@, currentProgress) ELSE @]
       ELSE UNCHANGED <<lastProgress, polled, emitted>>
    /\ UNCHANGED <<cliVars, guiVars, modelVars, cacheVars, registryVars, callerVars,
                   localVars, poller, done, events, teardownVars, delivered,
                   nativeCalls, prepares, lookedUp, found, returned, prior,
                   firstLoaded, priorLoaded, priorCached, nativeLoads>>

\* the polling goroutine, case <-done
PollExit(p) ==
    /\ poller[p] = "running"
    /\ done[p]
    /\ poller' = [poller EXCEPT ![p] = "off"]
    /\ UNCHANGED <<cliVars, guiVars, modelVars, cacheVars, registryVars, callerVars,
                   localVars, lastProgress, done, events, ticks, teardownVars,
                   historyVars>>

\* whisper_full returns: a status, and on success a result in the context
WhisperFullReturns(p, status, turns) ==
    /\ pc[p] = "native"
    /\ result' = [result EXCEPT ![p] = status]
    /\ ctxResult' = [ctxResult EXCEPT ![engine[p].model] =
            IF status = 0 THEN turns ELSE <<>>]
    /\ pc' = [pc EXCEPT ![p] = "stop"]
    /\ UNCHANGED <<cliVars, guiVars, modelCache, modelCacheMutex, ctx, mutex,
                   nextHandle, cacheVars, registryVars, engine, newResult,
                   news, calls, args, callbackID, progressPercent, tempWav, i,
                   currentSpeaker, segments, ret, pollVars, teardownVars,
                   historyVars>>

\* a return that leaves the done channel open
Closed_Never(progressCallback) == FALSE
\* if progressCallback != nil { close(done) }
Closed(progressCallback) == progressCallback

\* a status check that lets every status through
Failed_Never(status) == FALSE
\* if result != 0: the native call failed
Failed(status) == status # 0

\* close(done) with a progress callback, then the status check and
\* whisper_full_n_segments
StopPolling(p) ==
    /\ pc[p] = "stop"
    /\ done' = [done EXCEPT ![p] = Closed(args[p].progressCallback)]
    /\ IF Failed(result[p]) THEN
            /\ ret' = [ret EXCEPT ![p] =
                    [err |-> "whisper_full failed", segments |-> <<>>]]
            /\ pc' = [pc EXCEPT ![p] = AfterBody(p)]
       ELSE
            /\ pc' = [pc EXCEPT ![p] =
                    IF Len(ctxResult[engine[p].model]) = 0 THEN "store" ELSE "extract"]
            /\ UNCHANGED ret
    /\ segments' = [segments EXCEPT ![p] = <<>>]
    /\ i' = [i EXCEPT ![p] = 0]
    /\ currentSpeaker' = [currentSpeaker EXCEPT ![p] = 0]
    /\ UNCHANGED <<cliVars, guiVars, modelVars, cacheVars, registryVars, engine,
                   newResult, news, calls, args, callbackID, progressPercent,
                   tempWav, result, poller, lastProgress, events, ticks,
                   teardownVars, historyVars>>

\* the flag of the segment itself instead of the previous one
NextSpeaker_OwnFlag(raw, idx, speaker) ==
    IF raw[idx + 1].turnNext THEN speaker + 1 ELSE speaker
\* the speaker a segment gets: the running counter, bumped when the previous
\* segment carries the turn flag
NextSpeaker(raw, idx, speaker) ==
    IF idx > 0 /\ raw[idx].turnNext THEN speaker + 1 ELSE speaker

\* the Segment built from raw segment idx (0-based) of the context
MakeSegment(raw, idx, speaker) ==
    [Start |-> CentisToSeconds(raw[idx + 1].t0),
     End |-> CentisToSeconds(raw[idx + 1].t1),
     Text |-> raw[idx + 1].text,
     Original |-> <<>>,
     Translation |-> <<>>,
     Speaker |-> speaker]

\* one iteration of the extraction loop
ExtractSegment(p) ==
    /\ pc[p] = "extract"
    /\ LET raw == RawSegments(ctxResult[engine[p].model])
           speaker == NextSpeaker(raw, i[p], currentSpeaker[p])
           segment == MakeSegment(raw, i[p], speaker)
       IN
       /\ i[p] < Len(raw)
       /\ currentSpeaker' = [currentSpeaker EXCEPT ![p] = speaker]
       /\ segments' = [segments EXCEPT ![p] = Append(@, segment)]
       /\ Deliver(p, segment)
       /\ i' = [i EXCEPT ![p] = @ + 1]
       /\ pc' = [pc EXCEPT ![p] = IF i[p] + 1 < Len(raw) THEN "extract" ELSE "store"]
    /\ UNCHANGED <<cliVars, guiRest, modelVars, cacheVars, registryVars, engine,
                   newResult, news, calls, args, callbackID, progressPercent,
                   tempWav, result, ret, pollVars, teardownVars, emitted,
                   polled, nativeCalls, prepares, lookedUp, found, returned, prior,
                   firstLoaded, priorLoaded, priorCached, nativeLoads>>

\* a write-back without the translation guard
ShouldCache_Always(translateTo) == TRUE
\* whether a finished run writes its result back
ShouldCache(translateTo) == translateTo = ""

\* the cache write-back under the write lock, only without a translation
\* target; the return value is fixed
StoreTranscription(p) ==
    /\ pc[p] = "store"
    /\ transcriptionCache' =
            IF ShouldCache(args[p].translateTo)
            THEN [transcriptionCache EXCEPT ![CacheKeyOf(p)] = Entry(segments[p])]
            ELSE transcriptionCache
    /\ ret' = [ret EXCEPT ![p] = [err |-> "none", segments |-> segments[p]]]
    /\ pc' = [pc EXCEPT ![p] = AfterBody(p)]
    /\ UNCHANGED <<cliVars, guiVars, modelVars, registryVars, engine, newResult, news,
                   calls, args, callbackID, progressPercent, tempWav, result,
                   i, currentSpeaker, segments, pollVars, teardownVars,
                   historyVars>>

\* a cleanup that deletes nothing
Unregistered_Keep(registry, t) == registry
\* the registry after the deferred cleanup of token t
Unregistered(registry, t) ==
    [u \in DOMAIN registry \ {t} |-> registry[u]]

\* deferred: delete(callbackRegistry, callbackID) under the registry lock
UnregisterCallbacks(p) ==
    /\ pc[p] = "unregister"
    /\ callbackRegistry' = Unregistered(callbackRegistry, callbackID[p])
    /\ pc' = [pc EXCEPT ![p] = "unlock"]
    /\ UNCHANGED <<cliVars, guiVars, modelVars, cacheVars, callbackIDCounter, engine,
                   newResult, news, calls, args, localVars, pollVars,
                   teardownVars, historyVars>>

\* a return that leaves the handle's mutex locked
Unlocked_Never(m, h) == m
\* the handle mutexes after the deferred e.model.mutex.Unlock()
Unlocked(m, h) == [m EXCEPT ![MutexOf(h)] = NoOwner]

\* deferred: os.Remove(tempWav) if the audio was prepared, then
\* e.model.mutex.Unlock(), and the call returns
UnlockModel(p) ==
    /\ pc[p] = "unlock"
    /\ tempWav' = RemoveTemp(tempWav, p)
    /\ mutex' = Unlocked(mutex, engine[p].model)
    /\ ReturnToCaller(p, ret[p])
    /\ UNCHANGED <<cliVars, guiVars, modelCache, modelCacheMutex, ctx, ctxResult,
                   nextHandle, cacheVars, registryVars, engine, newResult,
                   news, calls, args, progressPercent, pollVars,
                   teardownVars, delivered, emitted, polled, nativeCalls,
                   prepares, lookedUp, found, prior, firstLoaded, priorLoaded, priorCached, nativeLoads>>

(* ------------------------------- the GUI -------------------------------- *)
\* a pipeline slot is free: its worker and its UI handler are over
Over(r) == worker[r] = "off" /\ handler[r] \notin {"running", "append"}

\* startTranscription: the Transcribe button, with an audio file selected.
\* Nothing keeps it from running while a pipeline is under way; the new
\* pipeline takes the first free slot.
startTranscription(r, maxRuns) ==
    /\ Over(r)
    /\ \A q \in Procs : q < r => ~Over(q)
    /\ runs < maxRuns
    /\ runs' = runs + 1
    /\ runOf' = [runOf EXCEPT ![r] = runs + 1]
    /\ workerRunning' = TRUE
    /\ stopRequested' = FALSE
    /\ transcriptionSegments' = <<>>
    /\ shownRuns' = <<>>
    /\ originalSegments' = <<>>
    /\ worker' = [worker EXCEPT ![r] = "spawn"]
    /\ handler' = [handler EXCEPT ![r] = "off"]
    /\ transcribed' = [transcribed EXCEPT ![r] = <<>>]
    /\ completed' = [completed EXCEPT ![r] = <<>>]
    /\ UNCHANGED <<cliVars, engineVars, segmentChan, doneChan, errorChan, appending>>

\* stopTranscription: the Stop button
stopTranscription ==
    /\ ~stopRequested
    /\ \E r \in Procs : ~Over(r)
    /\ stopRequested' = TRUE
    /\ UNCHANGED <<cliVars, engineVars, workerRunning, transcriptionSegments,
                   originalSegments, segmentChan, doneChan, errorChan,
                   handler, worker, appending, transcribed, completed, runs, runOf,
                   shownRuns>>

\* runTranscription: new channels, the two goroutines are started, and the
\* deferred workerRunning = false runs as the function returns
runTranscription(r) ==
    /\ worker[r] = "spawn"
    /\ segmentChan' = [segmentChan EXCEPT ![r] = <<>>]
    /\ doneChan' = [doneChan EXCEPT ![r] = NoEntry]
    /\ errorChan' = [errorChan EXCEPT ![r] = FALSE]
    /\ handler' = [handler EXCEPT ![r] = "running"]
    /\ worker' = [worker EXCEPT ![r] = "run"]
    /\ workerRunning' = FALSE
    /\ UNCHANGED <<cliVars, engineVars, stopRequested, transcriptionSegments,
                   originalSegments, appending, transcribed, completed, runs, runOf,
                   shownRuns>>

\* an append at the front of the list
appendSegment_Prepend(list, seg, stopped) ==
    IF stopped THEN list ELSE <<seg>> \o list
\* appendSegment(seg), which drops the segment after a stop request
appendSegment(list, seg, stopped) == IF stopped THEN list ELSE Append(list, seg)

\* UI handler, case seg := <-segmentChan: appendSegment(seg) up to the read
\* of a.transcriptionSegments.  The field is read and stored without a lock,
\* so other goroutines may store into it before this one does.
HandleSegment(r) ==
    /\ handler[r] = "running"
    /\ segmentChan[r] # <<>>
    /\ segmentChan' = [segmentChan EXCEPT ![r] = Tail(@)]
    /\ IF stopRequested
       THEN UNCHANGED <<handler, appending>>
       ELSE /\ handler' = [handler EXCEPT ![r] = "append"]
            /\ appending' = [appending EXCEPT ![r] =
                    [list |-> appendSegment(transcriptionSegments,
                                            Head(segmentChan[r]), stopRequested),
                     runs |-> appendSegment(shownRuns, runOf[r], stopRequested)]]
    /\ UNCHANGED <<cliVars, engineVars, workerRunning, stopRequested,
                   transcriptionSegments, originalSegments, doneChan,
                   errorChan, worker, transcribed, completed, runs, runOf, shownRuns>>

\* appendSegment: the store of the appended list into
\* a.transcriptionSegments
StoreAppended(r) ==
    /\ handler[r] = "append"
    /\ transcriptionSegments' = appending[r].list
    /\ shownRuns' = appending[r].runs
    /\ appending' = [appending EXCEPT ![r] = NoAppend]
    /\ handler' = [handler EXCEPT ![r] = "running"]
    /\ UNCHANGED <<cliVars, engineVars, workerRunning, stopRequested, originalSegments,
                   segmentChan, doneChan, errorChan, worker, transcribed, completed,
                   runs, runOf>>

\* UI handler, case segments := <-doneChan: transcriptionComplete(segments),
\* and the handler returns
transcriptionComplete(r) ==
    /\ handler[r] = "running"
    /\ doneChan[r].present
    /\ transcriptionSegments' = doneChan[r].segments
    /\ shownRuns' = [k \in 1..Len(doneChan[r].segments) |-> runOf[r]]
    /\ doneChan' = [doneChan EXCEPT ![r] = NoEntry]
    /\ handler' = [handler EXCEPT ![r] = "complete"]
    /\ completed' = [completed EXCEPT ![r] = doneChan[r].segments]
    /\ UNCHANGED <<cliVars, engineVars, workerRunning, stopRequested, originalSegments,
                   segmentChan, errorChan, worker, appending, transcribed,
                   runs, runOf>>

\* UI handler, case errMsg := <-errorChan: the handler returns
HandleError(r) ==
    /\ handler[r] = "running"
    /\ errorChan[r]
    /\ errorChan' = [errorChan EXCEPT ![r] = FALSE]
    /\ handler' = [handler EXCEPT ![r] = "failed"]
    /\ UNCHANGED <<cliVars, engineVars, workerRunning, stopRequested,
                   transcriptionSegments, originalSegments, segmentChan,
                   doneChan, worker, appending, transcribed, completed, runs, runOf,
                   shownRuns>>

\* worker: NewWhisperCGOEngine returned an error
EngineFailed(r) ==
    /\ worker[r] = "run"
    /\ pc[r] = "idle"
    /\ newResult[r] \notin {"none", "ok"}
    /\ errorChan' = [errorChan EXCEPT ![r] = TRUE]
    /\ worker' = [worker EXCEPT ![r] = "off"]
    /\ newResult' = [newResult EXCEPT ![r] = "none"]
    /\ UNCHANGED <<cliVars, modelVars, cacheVars, registryVars, pc, engine, news,
                   calls, args, localVars, pollVars, teardownVars,
                   historyVars, workerRunning, stopRequested,
                   transcriptionSegments, originalSegments, segmentChan,
                   doneChan, handler, appending, transcribed, completed, runs, runOf,
                   shownRuns>>

\* a worker that does not look at the stop flag after the transcription
SkipTranslation_IgnoreStop(stopped, enableTranslation) == ~enableTranslation
\* if stopped { ... return } and if enableTranslation { ... }: the worker
\* goes on to the translation only without a stop request and with the option
SkipTranslation(stopped, enableTranslation) == stopped \/ ~enableTranslation

\* worker: engine.Transcribe returned.  An error goes to errorChan; a list is
\* kept as originalSegments and, after a stop request or without translation,
\* goes to doneChan.
TranscribeReturned(r, enableTranslation) ==
    /\ worker[r] = "run"
    /\ pc[r] = "ready"
    /\ args[r] # NoArgs
    /\ IF ret[r].err # "none" THEN
            /\ errorChan' = [errorChan EXCEPT ![r] = TRUE]
            /\ worker' = [worker EXCEPT ![r] = "exit"]
            /\ UNCHANGED <<originalSegments, doneChan, transcribed>>
       ELSE /\ originalSegments' = ret[r].segments
            /\ transcribed' = [transcribed EXCEPT ![r] = ret[r].segments]
            /\ IF SkipTranslation(stopRequested, enableTranslation)
               THEN /\ doneChan' = [doneChan EXCEPT ![r] = Entry(ret[r].segments)]
                    /\ worker' = [worker EXCEPT ![r] = "exit"]
               ELSE /\ worker' = [worker EXCEPT ![r] = "translate"]
                    /\ UNCHANGED doneChan
            /\ UNCHANGED errorChan
    /\ UNCHANGED <<cliVars, engineVars, workerRunning, stopRequested,
                   transcriptionSegments, segmentChan, handler, appending,
                   completed, runs, runOf, shownRuns>>

\* MistralTranslator.Translate of one text when the service answers: the
\* words in the target language; an empty text is not sent
Requested_Always(text) == TRUE
\* whether Translate sends the text to the service: not when text == ""
Requested(text) == text # <<>>
Translate(text, targetLang) ==
    [k \in 1..Len(text) |-> [lang |-> targetLang, word |-> text[k].word]]

\* the Segment TranslateSegments builds from seg: times, texts, and no speaker
TranslatedSegment(seg, targetLang) ==
    [Start |-> seg.Start,
     End |-> seg.End,
     Text |-> Translate(seg.Text, targetLang),
     Original |-> seg.Text,
     Translation |-> Translate(seg.Text, targetLang),
     Speaker |-> 0]

\* the loop of TranslateSegments from segment k on: the request for segment
\* failAt fails (0: none does), and then nil is returned with the error; a
\* segment with an empty text makes no request and so cannot fail. `requests`
\* lists the indexes sent to the service, in the order they were sent
RECURSIVE TranslateFrom(_, _, _, _, _, _)
TranslateFrom(list, targetLang, failAt, k, translated, sent) ==
    IF k > Len(list)
    THEN [err |-> "none", segments |-> translated, requests |-> sent]
    ELSE IF k = failAt /\ Requested(list[k].Text)
    THEN [err |-> "failed to translate segment", segments |-> <<>>,
          requests |-> Append(sent, k)]
    ELSE TranslateFrom(list, targetLang, failAt, k + 1,
                       Append(translated, TranslatedSegment(list[k], targetLang)),
                       IF Requested(list[k].Text) THEN Append(sent, k) ELSE sent)

\* a failure that hands back the segments translated before it
TranslateSegments_Partial(list, targetLang, failAt) ==
    IF failAt \in 1..Len(list)
    THEN [err |-> "failed to translate segment",
          segments |-> [j \in 1..(failAt - 1) |-> TranslatedSegment(list[j], targetLang)],
          requests |-> [j \in 1..failAt |-> j]]
    ELSE [err |-> "none",
          segments |-> [j \in 1..Len(list) |-> TranslatedSegment(list[j], targetLang)],
          requests |-> [j \in 1..Len(list) |-> j]]
\* MistralTranslator.TranslateSegments
TranslateSegments(list, targetLang, failAt) ==
    TranslateFrom(list, targetLang, failAt, 1, <<>>, <<>>)

\* the rewrite after a translation: Text becomes the translation, and Original
\* is dropped unless the original is kept
KeepOriginal(list, keepOriginal) ==
    [k \in 1..Len(list) |->
        [list[k] EXCEPT !.Text = list[k].Translation,
                        !.Original = IF keepOriginal THEN @ ELSE <<>>]]

\* worker: the translation step.  A failure goes to errorChan; after a stop
\* request the untranslated list goes to doneChan, otherwise the translated
\* one.
TranslationReturned(r, failAt, keepOriginal) ==
    /\ worker[r] = "translate"
    /\ worker' = [worker EXCEPT ![r] = "exit"]
    /\ LET translatedSegments == TranslateSegments(transcribed[r], "en", failAt) IN
       IF translatedSegments.err # "none" THEN
            /\ errorChan' = [errorChan EXCEPT ![r] = TRUE]
            /\ UNCHANGED doneChan
       ELSE /\ doneChan' = [doneChan EXCEPT ![r] = Entry(
                    IF stopRequested THEN transcribed[r]
                    ELSE KeepOriginal(translatedSegments.segments, keepOriginal))]
            /\ UNCHANGED errorChan
    /\ UNCHANGED <<cliVars, engineVars, workerRunning, stopRequested,
                   transcriptionSegments, originalSegments, segmentChan,
                   handler, appending, transcribed, completed, runs, runOf, shownRuns>>

\* worker: the deferred engine.Close() has run and the goroutine is over
WorkerReturns(r) ==
    /\ worker[r] = "exit"
    /\ pc[r] = "idle"
    /\ worker' = [worker EXCEPT ![r] = "off"]
    /\ UNCHANGED <<cliVars, engineVars, workerRunning, stopRequested,
                   transcriptionSegments, originalSegments, segmentChan,
                   doneChan, errorChan, handler, appending, transcribed, completed,
                   runs, runOf, shownRuns>>

(* ----------------------------- FormatOutput ----------------------------- *)
\* containsHebrew: some word of the text is Hebrew
containsHebrew(s) == \E k \in 1..Len(s) : s[k].lang = "he"

\* seg.Original != "" && seg.Translation != ""
HasBoth(seg) == seg.Original # <<>> /\ seg.Translation # <<>>

\* one line of text output: label <<n>> stands for "Speaker n: ", indent for
\* the blanks that align a translation, rtl for the RTL markers around words
Line(label, indent, rtl, words) ==
    [label |-> label, indent |-> indent, rtl |-> rtl, words |-> words]

\* a label on every segment
SpeakerChanged_Always(speaker, lastSpeaker) == TRUE
\* seg.Speaker != lastSpeaker
SpeakerChanged(speaker, lastSpeaker) == speaker # lastSpeaker

\* the label of a segment: "Speaker %d" of seg.Speaker+1, or none
SpeakerPrefix(seg, lastSpeaker) ==
    IF SpeakerChanged(seg.Speaker, lastSpeaker) THEN <<seg.Speaker + 1>> ELSE <<>>

\* case "text": the lines of one segment
TextLines(seg, lastSpeaker) ==
    LET speakerPrefix == SpeakerPrefix(seg, lastSpeaker) IN
    IF HasBoth(seg)
    THEN <<Line(speakerPrefix, FALSE, TRUE, seg.Original),
           Line(<<>>, speakerPrefix # <<>>, FALSE, seg.Translation),
           Line(<<>>, FALSE, FALSE, <<>>)>>
    ELSE <<Line(speakerPrefix, FALSE, containsHebrew(seg.Text), seg.Text)>>

\* case "srt" (index k) and case "vtt" (index 0): the cue of one segment, its
\* times left in seconds
Cue(seg, index, lastSpeaker) ==
    [index |-> index, start |-> seg.Start, end |-> seg.End,
     label |-> SpeakerPrefix(seg, lastSpeaker),
     words |-> IF HasBoth(seg) THEN seg.Original ELSE seg.Text,
     second |-> IF HasBoth(seg) THEN seg.Translation ELSE <<>>]

\* case "json": the object of one segment
Object(seg) ==
    [start |-> seg.Start, end |-> seg.End, speaker |-> seg.Speaker + 1,
     original |-> IF HasBoth(seg) THEN seg.Original ELSE <<>>,
     translation |-> IF HasBoth(seg) THEN seg.Translation ELSE <<>>,
     text |-> IF HasBoth(seg) THEN <<>> ELSE seg.Text]

\* the loop over the segments from segment k on; lastSpeaker is the speaker
\* of the segment before
RECURSIVE FormatFrom(_, _, _, _)
FormatFrom(list, formatType, k, lastSpeaker) ==
    IF k > Len(list) THEN <<>>
    ELSE LET seg == list[k] IN
         (CASE formatType = "text" -> TextLines(seg, lastSpeaker)
            [] formatType = "json" -> <<Object(seg)>>
            [] formatType = "srt" -> <<Cue(seg, k, lastSpeaker)>>
            [] OTHER -> <<Cue(seg, 0, lastSpeaker)>>)
         \o FormatFrom(list, formatType, k + 1, seg.Speaker)

\* FormatOutput; includeOriginal is not used by it
FormatOutput(list, formatType, includeOriginal) ==
    CASE formatType = "text" -> FormatFrom(list, formatType, 1, -1)
      [] formatType = "json" -> <<"[">> \o FormatFrom(list, formatType, 1, -1) \o <<"]">>
      [] formatType = "srt" -> FormatFrom(list, formatType, 1, -1)
      [] formatType = "vtt" -> <<"WEBVTT">> \o FormatFrom(list, formatType, 1, -1)
      [] OTHER -> <<>>

\* segment k of a list handed to FormatOutput: as transcribed, translated
\* with the original kept, or translated without it
InputSegment(k, speaker, variant) ==
    LET turns == [j \in 1..k |-> FALSE]
        seg == MakeSegment(RawSegments(turns), k - 1, speaker)
        both == [TranslatedSegment(seg, "en") EXCEPT !.Speaker = speaker]
    IN  IF variant = "plain" THEN seg
        ELSE IF variant = "both" THEN both
        ELSE [both EXCEPT !.Original = <<>>]
SegmentVariants == {"plain", "both", "translation"}
SegmentLists(maxLen, maxSpeaker) ==
    UNION {{[k \in 1..n |-> InputSegment(k, choice[k][1], choice[k][2])] :
                choice \in [1..n -> (0..maxSpeaker) \X SegmentVariants]} :
           n \in 0..maxLen}

\* the call of FormatOutput on a segment list
FormatSegments(list, formatType, includeOriginal) ==
    /\ cli.pc = "start"
    /\ cli.format = ""
    /\ cli' = [cli EXCEPT !.segments = list,
                          !.format = formatType,
                          !.keepOriginal = includeOriginal,
                          !.output = FormatOutput(list, formatType, includeOriginal)]
    /\ UNCHANGED <<engineVars, guiVars, modelStore>>

(* ------------------------------- CLIMode -------------------------------- *)
validFormats == {"text", "json", "srt", "vtt"}
\* -input values: none, a file that exists, a file that does not
CLIInputs == {"", "nonexistent_file.mp3"} \cup AudioPaths
\* -model and -format values: the valid ones, one in another case, another
CLIModels == validModels \cup {"Turbo", "invalid-model"}
CLIFormats == validFormats \cup {"TEXT", "invalid-format"}

\* the run ends with os.Exit(code)
Exit(c, code, error) == [c EXCEPT !.pc = "exited", !.exit = code, !.error = error]

\* if *help || *audioFile == ""
ShowHelp(help, audioFile) == help \/ audioFile = ""
\* an exit code of 0 after every usage text
HelpExitCode_Zero(audioFile) == 0
\* the exit code after the usage text
HelpExitCode(audioFile) == IF audioFile = "" THEN 1 ELSE 0

\* a validation that accepts every model
Validate_AnyModel(audioFile, modelID, format) ==
    IF audioFile \notin AudioPaths THEN "Input file does not exist"
    ELSE IF format \notin validFormats THEN "Invalid format"
    ELSE "none"
\* the validation of the flags: the first check that fails, "none" if none
Validate(audioFile, modelID, format) ==
    IF audioFile \notin AudioPaths THEN "Input file does not exist"
    ELSE IF modelID \notin validModels THEN "Invalid model"
    ELSE IF format \notin validFormats THEN "Invalid format"
    ELSE "none"

\* CLIMode up to the start of the run: flag.Parse, the help branch, the
\* validation of the flags
CLIParseFlags(help, audioFile, modelID, format, translate, targetLang, keepOriginal) ==
    /\ cli.pc = "start"
    /\ LET c == [cli EXCEPT !.help = help, !.input = audioFile,
                            !.model = modelID, !.format = format,
                            !.translate = translate, !.lang = targetLang,
                            !.keepOriginal = keepOriginal]
       IN  cli' = IF ShowHelp(help, audioFile)
                  THEN Exit([c EXCEPT !.usage = TRUE], HelpExitCode(audioFile), "none")
                  ELSE IF Validate(audioFile, modelID, format) # "none"
                  THEN Exit(c, 1, Validate(audioFile, modelID, format))
                  ELSE [c EXCEPT !.pc = "getmodel"]
    /\ UNCHANGED <<engineVars, guiVars, modelStore>>

\* GetModelPath(*modelID, progressCallback): the path of the model file, found
\* or downloaded, or an error
CLIGetModelPath(ok) ==
    /\ cli.pc = "getmodel"
    /\ cli' = IF ok
              THEN [cli EXCEPT !.acquired = TRUE, !.pc = "engine",
                               !.modelPath = ModelPathOf(cli.model)]
              ELSE Exit([cli EXCEPT !.acquired = TRUE], 1, "Error getting model")
    /\ UNCHANGED <<engineVars, guiVars, modelStore>>

\* NewWhisperCGOEngine(modelPath) returned
CLIEngineReturned ==
    /\ cli.pc = "engine"
    /\ pc[CLIMode] \in {"idle", "ready"}
    /\ newResult[CLIMode] # "none"
    /\ cli' = IF newResult[CLIMode] = "ok"
              THEN [cli EXCEPT !.pc = "transcribe"]
              ELSE Exit(cli, 1, "Error initializing whisper engine")
    /\ UNCHANGED <<engineVars, guiVars, modelStore>>

\* engine.Transcribe returned
CLITranscribeReturned ==
    /\ cli.pc = "transcribe"
    /\ pc[CLIMode] = "ready"
    /\ args[CLIMode] # NoArgs
    /\ cli' = IF ret[CLIMode].err # "none"
              THEN Exit(cli, 1, "Error during transcription")
              ELSE [cli EXCEPT !.segments = ret[CLIMode].segments,
                               !.pc = IF cli.translate THEN "translate" ELSE "write"]
    /\ UNCHANGED <<engineVars, guiVars, modelStore>>

\* if *translate: TranslateSegments and the keep-original rewrite
CLITranslate(failAt) ==
    /\ cli.pc = "translate"
    /\ LET translatedSegments == TranslateSegments(cli.segments, cli.lang, failAt) IN
       cli' = IF translatedSegments.err # "none"
              THEN Exit([cli EXCEPT !.translation = translatedSegments], 1,
                        "Error during translation")
              ELSE [cli EXCEPT !.translation = translatedSegments,
                               !.segments = KeepOriginal(translatedSegments.segments,
                                                         cli.keepOriginal),
                               !.pc = "write"]
    /\ UNCHANGED <<engineVars, guiVars, modelStore>>

\* FormatOutput and os.WriteFile
CLIWriteOutput(ok) ==
    /\ cli.pc = "write"
    /\ LET c == [cli EXCEPT !.output = FormatOutput(cli.segments, cli.format,
                                                    cli.keepOriginal)]
       IN  cli' = IF ok THEN [c EXCEPT !.written = TRUE, !.pc = "close"]
                  ELSE Exit(c, 1, "Error writing output file")
    /\ UNCHANGED <<engineVars, guiVars, modelStore>>

\* CLIMode returns after the deferred engine.Close()
CLIReturn ==
    /\ cli.pc = "close"
    /\ pc[CLIMode] = "idle"
    /\ cli' = Exit(cli, 0, "none")
    /\ UNCHANGED <<engineVars, guiVars, modelStore>>

(* ---------------------------- specification ----------------------------- *)
\* Two concurrent callers of the engine facade on the model files, without
\* sinks and without translation.
Next ==
    \/ \E p \in Procs, modelPath \in ModelPaths :
            NewWhisperCGOEngine(p, modelPath, MaxNews)
    \/ \E p \in Procs, ok \in BOOLEAN : LoadModel(p, ok)
    \/ \E p \in Procs : StoreInCache(p)
    \/ \E p \in Procs : Close(p)
    \/ \E p \in Procs, audioPath \in AudioPaths :
            TranscribeWithTranslation(p, audioPath, "", FALSE, "nil", MaxCalls)
    \/ \E p \in Procs : ReturnCached(p)
    \/ \E p \in Procs : LockModel(p)
    \/ \E p \in Procs, ok \in BOOLEAN : PrepareAudioFile(p, ok)
    \/ \E p \in Procs, ok \in BOOLEAN, sampleRate \in SampleRates :
            ReadWAVFile(p, ok, sampleRate)
    \/ \E p \in Procs : StartWhisperFull(p)
    \/ \E p \in Procs, status \in {0, 1}, turns \in NativeResults(1) :
            WhisperFullReturns(p, status, turns)
    \/ \E p \in Procs : StopPolling(p)
    \/ \E p \in Procs : ExtractSegment(p)
    \/ \E p \in Procs : StoreTranscription(p)
    \/ \E p \in Procs : UnlockModel(p)

Spec == Init /\ [][Next]_vars

\* Two concurrent callers that create and close engines and transcribe, and
\* the teardown.
NextTeardown ==
    \/ \E p \in Procs, modelPath \in ModelPaths \cup {"", MissingPath} :
            NewWhisperCGOEngine(p, modelPath, MaxLoads)
    \/ \E p \in Procs, ok \in BOOLEAN : LoadModel(p, ok)
    \/ \E p \in Procs : StoreInCache(p)
    \/ \E p \in Procs : Close(p)
    \/ ClearModelCache(MaxClears)
    \/ \E path \in ModelPaths : ClearLockModel(path)
    \/ ClearFreeModel
    \/ ClearReturn
    \/ \E p \in Procs, audioPath \in AudioPaths :
            TranscribeWithTranslation(p, audioPath, "en", FALSE, "nil",
                                      MaxTeardownCalls)
    \/ \E p \in Procs : LockModel(p)
    \/ \E p \in Procs : PrepareAudioFile(p, TRUE)
    \/ \E p \in Procs : ReadWAVFile(p, TRUE, RequiredSampleRate)
    \/ \E p \in Procs : StartWhisperFull(p)
    \/ \E p \in Procs : WhisperFullReturns(p, 0, <<>>)
    \/ \E p \in Procs : StopPolling(p)
    \/ \E p \in Procs : StoreTranscription(p)
    \/ \E p \in Procs : UnlockModel(p)

SpecTeardown == Init /\ [][NextTeardown]_vars

\* Two concurrent callers transcribing one audio file with one model, with
\* and without a translation target.
NextCache ==
    \/ \E p \in Procs : NewWhisperCGOEngine(p, ModelPathOf("turbo"), MaxCacheNews)
    \/ \E p \in Procs : LoadModel(p, TRUE)
    \/ \E p \in Procs : StoreInCache(p)
    \/ \E p \in Procs, audioPath \in AudioPaths, translateTo \in TranslateTargets :
            TranscribeWithTranslation(p, audioPath, translateTo, FALSE, "sink",
                                      MaxCacheCalls)
    \/ \E p \in Procs : ReplayCached(p)
    \/ \E p \in Procs : ReturnCached(p)
    \/ \E p \in Procs : LockModel(p)
    \/ \E p \in Procs, ok \in BOOLEAN : PrepareAudioFile(p, ok)
    \/ \E p \in Procs : ReadWAVFile(p, TRUE, RequiredSampleRate)
    \/ \E p \in Procs : StartWhisperFull(p)
    \/ \E p \in Procs, status \in {0, 1}, turns \in NativeResults(1) :
            WhisperFullReturns(p, status, turns)
    \/ \E p \in Procs : StopPolling(p)
    \/ \E p \in Procs : ExtractSegment(p)
    \/ \E p \in Procs : StoreTranscription(p)
    \/ \E p \in Procs : UnlockModel(p)

SpecCache == Init /\ [][NextCache]_vars

\* Two concurrent callers with progress callbacks on two models: the
\* callback registry and the foreign progress events, with native calls that
\* are over before the polling goroutine's ticker fires.
NextRegistry ==
    \/ \E p \in Procs, modelPath \in ModelPaths :
            NewWhisperCGOEngine(p, modelPath, MaxRegistryNews)
    \/ \E p \in Procs : LoadModel(p, TRUE)
    \/ \E p \in Procs : StoreInCache(p)
    \/ \E p \in Procs, audioPath \in AudioPaths :
            TranscribeWithTranslation(p, audioPath, "", TRUE, "nil",
                                      MaxRegistryCalls)
    \/ \E p \in Procs : ReturnCached(p)
    \/ \E p \in Procs : LockModel(p)
    \/ \E p \in Procs, ok \in BOOLEAN : PrepareAudioFile(p, ok)
    \/ \E p \in Procs, ok \in BOOLEAN, sampleRate \in SampleRates :
            ReadWAVFile(p, ok, sampleRate)
    \/ \E p \in Procs : RegisterCallbacks(p)
    \/ \E p \in Procs : StartWhisperFull(p)
    \/ \E p \in Procs : whisper_progress_callback_go(p, 50, MaxRegistryEvents)
    \/ \E p \in Procs : PollExit(p)
    \/ \E p \in Procs, status \in {0, 1} : WhisperFullReturns(p, status, <<>>)
    \/ \E p \in Procs : StopPolling(p)
    \/ \E p \in Procs : StoreTranscription(p)
    \/ \E p \in Procs : UnregisterCallbacks(p)
    \/ \E p \in Procs : UnlockModel(p)

SpecRegistry == Init /\ [][NextRegistry]_vars

\* The GUI: pipelines that may overlap, each with its UI handler and its
\* worker, which calls the engine on one audio file and one model.
NextGUI ==
    \/ \E r \in Procs : startTranscription(r, MaxRuns)
    \/ \E r \in Procs : runTranscription(r)
    \/ \E r \in Procs : HandleSegment(r)
    \/ \E r \in Procs : StoreAppended(r)
    \/ \E r \in Procs : transcriptionComplete(r)
    \/ \E r \in Procs : HandleError(r)
    \/ \E r \in Procs : TranscribeReturned(r, FALSE)
    \/ \E r \in Procs : WorkerReturns(r)
    \/ \E r \in Procs :
            /\ worker[r] = "run"
            /\ newResult[r] = "none"
            /\ NewWhisperCGOEngine(r, ModelPathOf("turbo"), MaxRuns)
    \/ \E r \in Procs : LoadModel(r, TRUE)
    \/ \E r \in Procs : StoreInCache(r)
    \/ \E r \in Procs :
            /\ worker[r] = "exit"
            /\ Close(r)
    \/ \E r \in Procs, audioPath \in AudioPaths :
            /\ worker[r] = "run"
            /\ args[r] = NoArgs
            /\ TranscribeWithTranslation(r, audioPath, "", TRUE, "gui", MaxRuns)
    \/ \E r \in Procs : ReplayCached(r)
    \/ \E r \in Procs : ReturnCached(r)
    \/ \E r \in Procs : LockModel(r)
    \/ \E r \in Procs : PrepareAudioFile(r, TRUE)
    \/ \E r \in Procs : ReadWAVFile(r, TRUE, RequiredSampleRate)
    \/ \E r \in Procs : RegisterCallbacks(r)
    \/ \E r \in Procs : StartWhisperFull(r)
    \/ \E r \in Procs : PollExit(r)
    \/ \E r \in Procs, status \in {0, 1} :
            WhisperFullReturns(r, status, [k \in 1..MaxSegs |-> FALSE])
    \/ \E r \in Procs : StopPolling(r)
    \/ \E r \in Procs : ExtractSegment(r)
    \/ \E r \in Procs : StoreTranscription(r)
    \/ \E r \in Procs : UnregisterCallbacks(r)
    \/ \E r \in Procs : UnlockModel(r)

SpecGUI == Init /\ [][NextGUI]_vars

\* One caller with a progress callback and a segment callback: every
\* progress value and every native result.
NextRelay ==
    \/ NewWhisperCGOEngine(CLIMode, ModelPathOf("turbo"), MaxRelayCalls)
    \/ LoadModel(CLIMode, TRUE)
    \/ StoreInCache(CLIMode)
    \/ \E audioPath \in AudioPaths :
            TranscribeWithTranslation(CLIMode, audioPath, "", TRUE, "sink",
                                      MaxRelayCalls)
    \/ ReplayCached(CLIMode)
    \/ ReturnCached(CLIMode)
    \/ LockModel(CLIMode)
    \/ \E ok \in BOOLEAN : PrepareAudioFile(CLIMode, ok)
    \/ \E ok \in BOOLEAN, sampleRate \in SampleRates :
            ReadWAVFile(CLIMode, ok, sampleRate)
    \/ RegisterCallbacks(CLIMode)
    \/ StartWhisperFull(CLIMode)
    \/ \E progress \in ProgressValues :
            whisper_progress_callback_go(CLIMode, progress, MaxEvents)
    \/ PollTick(CLIMode, MaxTicks)
    \/ PollExit(CLIMode)
    \/ \E status \in {0, 1}, turns \in NativeResults(MaxSegs) :
            WhisperFullReturns(CLIMode, status, turns)
    \/ StopPolling(CLIMode)
    \/ ExtractSegment(CLIMode)
    \/ StoreTranscription(CLIMode)
    \/ UnregisterCallbacks(CLIMode)
    \/ UnlockModel(CLIMode)

SpecRelay == Init /\ [][NextRelay]_vars

\* One run of the command line: flags, model acquisition, one Transcribe call
\* with a progress callback whose native call is over before the polling
\* goroutine's ticker fires, translation, output.
NextCLI ==
    \/ \E help \in BOOLEAN, audioFile \in CLIInputs, modelID \in CLIModels,
          format \in CLIFormats, translate \in BOOLEAN, keepOriginal \in BOOLEAN :
            CLIParseFlags(help, audioFile, modelID, format, translate, "en",
                          keepOriginal)
    \/ \E ok \in BOOLEAN : CLIGetModelPath(ok)
    \/ /\ cli.pc = "engine"
       /\ newResult[CLIMode] = "none"
       /\ NewWhisperCGOEngine(CLIMode, cli.modelPath, 1)
    \/ \E ok \in BOOLEAN : LoadModel(CLIMode, ok)
    \/ StoreInCache(CLIMode)
    \/ CLIEngineReturned
    \/ /\ cli.pc = "transcribe"
       /\ args[CLIMode] = NoArgs
       /\ TranscribeWithTranslation(CLIMode, cli.input, "", TRUE, "nil", 1)
    \/ LockModel(CLIMode)
    \/ \E ok \in BOOLEAN : PrepareAudioFile(CLIMode, ok)
    \/ \E ok \in BOOLEAN, sampleRate \in SampleRates :
            ReadWAVFile(CLIMode, ok, sampleRate)
    \/ RegisterCallbacks(CLIMode)
    \/ StartWhisperFull(CLIMode)
    \/ PollExit(CLIMode)
    \/ \E status \in {0, 1}, turns \in NativeResults(MaxCLISegs) :
            WhisperFullReturns(CLIMode, status, turns)
    \/ StopPolling(CLIMode)
    \/ ExtractSegment(CLIMode)
    \/ StoreTranscription(CLIMode)
    \/ UnregisterCallbacks(CLIMode)
    \/ UnlockModel(CLIMode)
    \/ CLITranscribeReturned
    \/ \E failAt \in 0..MaxCLISegs : CLITranslate(failAt)
    \/ \E ok \in BOOLEAN : CLIWriteOutput(ok)
    \/ /\ cli.pc = "close"
       /\ Close(CLIMode)
    \/ CLIReturn

SpecCLI == Init /\ [][NextCLI]_vars

\* Two concurrent callers with progress callbacks and write-backs that create
\* and close engines and transcribe, and the teardown: every lock of the
\* engine is taken.
NextLocks ==
    \/ \E p \in Procs, modelPath \in ModelPaths :
            NewWhisperCGOEngine(p, modelPath, MaxLockNews)
    \/ \E p \in Procs : LoadModel(p, TRUE)
    \/ \E p \in Procs : StoreInCache(p)
    \/ \E p \in Procs : Close(p)
    \/ ClearModelCache(MaxClears)
    \/ \E path \in ModelPaths : ClearLockModel(path)
    \/ ClearFreeModel
    \/ ClearReturn
    \/ \E p \in Procs, audioPath \in AudioPaths :
            TranscribeWithTranslation(p, audioPath, "", TRUE, "nil", MaxLockCalls)
    \/ \E p \in Procs : LockModel(p)
    \/ \E p \in Procs : PrepareAudioFile(p, TRUE)
    \/ \E p \in Procs : ReadWAVFile(p, TRUE, RequiredSampleRate)
    \/ \E p \in Procs : RegisterCallbacks(p)
    \/ \E p \in Procs : StartWhisperFull(p)
    \/ \E p \in Procs : whisper_progress_callback_go(p, 50, MaxLockEvents)
    \/ \E p \in Procs : PollExit(p)
    \/ \E p \in Procs : WhisperFullReturns(p, 0, <<>>)
    \/ \E p \in Procs : StopPolling(p)
    \/ \E p \in Procs : StoreTranscription(p)
    \/ \E p \in Procs : UnregisterCallbacks(p)
    \/ \E p \in Procs : UnlockModel(p)

SpecLocks == Init /\ [][NextLocks]_vars

\* Two concurrent callers on two models, with and without progress callbacks:
\* the callback slots and the progress events, with native calls that are
\* over before the polling goroutine's ticker fires.
NextSlots ==
    \/ \E p \in Procs, modelPath \in ModelPaths :
            NewWhisperCGOEngine(p, modelPath, MaxSlotNews)
    \/ \E p \in Procs : LoadModel(p, TRUE)
    \/ \E p \in Procs : StoreInCache(p)
    \/ \E p \in Procs, audioPath \in AudioPaths, progressCallback \in BOOLEAN :
            TranscribeWithTranslation(p, audioPath, "", progressCallback, "nil",
                                      MaxSlotCalls)
    \/ \E p \in Procs : ReturnCached(p)
    \/ \E p \in Procs : LockModel(p)
    \/ \E p \in Procs : PrepareAudioFile(p, TRUE)
    \/ \E p \in Procs : ReadWAVFile(p, TRUE, RequiredSampleRate)
    \/ \E p \in Procs : RegisterCallbacks(p)
    \/ \E p \in Procs : StartWhisperFull(p)
    \/ \E p \in Procs, progress \in ProgressValues :
            whisper_progress_callback_go(p, progress, MaxSlotEvents)
    \/ \E p \in Procs : PollExit(p)
    \/ \E p \in Procs, status \in {0, 1} : WhisperFullReturns(p, status, <<>>)
    \/ \E p \in Procs : StopPolling(p)
    \/ \E p \in Procs : StoreTranscription(p)
    \/ \E p \in Procs : UnregisterCallbacks(p)
    \/ \E p \in Procs : UnlockModel(p)

SpecSlots == Init /\ [][NextSlots]_vars

\* Two concurrent callers on one model, with and without progress callbacks:
\* the polling goroutines, whose select takes the done case once it stays
\* ready, next to callers that go on after the native call has returned.
NextPolling ==
    \/ \E p \in Procs : NewWhisperCGOEngine(p, ModelPathOf("turbo"), MaxPollNews)
    \/ \E p \in Procs : LoadModel(p, TRUE)
    \/ \E p \in Procs : StoreInCache(p)
    \/ \E p \in Procs, audioPath \in AudioPaths, progressCallback \in BOOLEAN :
            TranscribeWithTranslation(p, audioPath, "", progressCallback, "nil",
                                      MaxPollCalls)
    \/ \E p \in Procs : ReturnCached(p)
    \/ \E p \in Procs : LockModel(p)
    \/ \E p \in Procs : PrepareAudioFile(p, TRUE)
    \/ \E p \in Procs : ReadWAVFile(p, TRUE, RequiredSampleRate)
    \/ \E p \in Procs : RegisterCallbacks(p)
    \/ \E p \in Procs : StartWhisperFull(p)
    \/ \E p \in Procs : whisper_progress_callback_go(p, 50, MaxPollEvents)
    \/ \E p \in Procs : PollTick(p, MaxPollTicks)
    \/ \E p \in Procs : PollExit(p)
    \/ \E p \in Procs, status \in {0, 1} : WhisperFullReturns(p, status, <<>>)
    \/ \E p \in Procs : StopPolling(p)
    \/ \E p \in Procs : StoreTranscription(p)
    \/ \E p \in Procs : UnregisterCallbacks(p)
    \/ \E p \in Procs : UnlockModel(p)

SpecPolling ==
    /\ Init /\ [][NextPolling]_vars
    /\ \A p \in Procs : WF_vars(StopPolling(p)) /\ WF_vars(PollExit(p))

\* The GUI with its Stop button and the translation stage: a pipeline whose
\* worker transcribes an audio file that is not in the transcription cache
\* and then translates.
NextStop ==
    \/ \E r \in Procs : startTranscription(r, MaxStopRuns)
    \/ stopTranscription
    \/ \E r \in Procs : runTranscription(r)
    \/ \E r \in Procs : HandleSegment(r)
    \/ \E r \in Procs : StoreAppended(r)
    \/ \E r \in Procs : transcriptionComplete(r)
    \/ \E r \in Procs : HandleError(r)
    \/ \E r \in Procs, enableTranslation \in BOOLEAN :
            TranscribeReturned(r, enableTranslation)
    \/ \E r \in Procs, failAt \in 0..MaxStopSegs, keepOriginal \in BOOLEAN :
            TranslationReturned(r, failAt, keepOriginal)
    \/ \E r \in Procs : WorkerReturns(r)
    \/ \E r \in Procs :
            /\ worker[r] = "run"
            /\ newResult[r] = "none"
            /\ NewWhisperCGOEngine(r, ModelPathOf("turbo"), MaxStopRuns)
    \/ \E r \in Procs : LoadModel(r, TRUE)
    \/ \E r \in Procs : StoreInCache(r)
    \/ \E r \in Procs :
            /\ worker[r] = "exit"
            /\ Close(r)
    \/ \E r \in Procs, audioPath \in AudioPaths :
            /\ worker[r] = "run"
            /\ args[r] = NoArgs
            /\ TranscribeWithTranslation(r, audioPath, "", TRUE, "gui", MaxStopRuns)
    \/ \E r \in Procs : LockModel(r)
    \/ \E r \in Procs : PrepareAudioFile(r, TRUE)
    \/ \E r \in Procs : ReadWAVFile(r, TRUE, RequiredSampleRate)
    \/ \E r \in Procs : RegisterCallbacks(r)
    \/ \E r \in Procs : StartWhisperFull(r)
    \/ \E r \in Procs : PollExit(r)
    \/ \E r \in Procs :
            WhisperFullReturns(r, 0, [k \in 1..MaxStopSegs |-> FALSE])
    \/ \E r \in Procs : StopPolling(r)
    \/ \E r \in Procs : ExtractSegment(r)
    \/ \E r \in Procs : StoreTranscription(r)
    \/ \E r \in Procs : UnregisterCallbacks(r)
    \/ \E r \in Procs : UnlockModel(r)

SpecStop == Init /\ [][NextStop]_vars

\* FormatOutput on every segment list up to MaxFormatSegs segments
NextFormat ==
    \E list \in SegmentLists(MaxFormatSegs, MaxSpeaker),
       formatType \in validFormats, includeOriginal \in BOOLEAN :
        FormatSegments(list, formatType, includeOriginal)

SpecFormat == Init /\ [][NextFormat]_vars

TypeOK ==
    /\ \A p \in Procs : pc[p] \in {"idle", "load", "insert", "ready", "replay",
            "lock", "prepare", "read", "register", "start", "native", "stop",
            "extract", "store", "unregister", "unlock"}
    /\ nextHandle \in 1..(MaxHandles + 1)
    /\ \A h \in Handles : mutex[h] \in Procs \cup {Teardown, NoOwner}
    /\ \A r \in Procs :
            /\ handler[r] \in {"off", "running", "append", "complete", "failed"}
            /\ worker[r] \in {"off", "spawn", "run", "translate", "exit"}
            /\ Len(segmentChan[r]) <= SegmentChanCap
    /\ Len(shownRuns) = Len(transcriptionSegments)

(* ------------------------------ properties ------------------------------ *)
\* p is inside a TranscribeWithTranslation invocation
InCall(p) == pc[p] \in {"replay", "lock", "prepare", "read", "register",
                        "start", "native", "stop", "extract", "store",
                        "unregister", "unlock"}
\* p's whisper_full call is executing
InNative(p) == pc[p] = "native"
\* p's last invocation returned a segment list
ReturnedOk(p) == pc[p] = "ready" /\ args[p] # NoArgs /\ ret[p].err = "none"
\* p's last invocation returned a segment list, had no translation target,
\* and started after an invocation with its key had returned a list
ReturnedAgain(p) ==
    ReturnedOk(p) /\ args[p].translateTo = "" /\ prior[p].present

\* C1 as claimed: an untranslated invocation that starts after an invocation
\* with the same audio path and model id returned a list returns an equal list
\* and makes no native call and no audio preparation.
C1_Idempotent ==
    \A p \in Procs :
        ReturnedAgain(p) =>
            /\ ret[p].segments = prior[p].segments
            /\ nativeCalls[p] = 0
            /\ prepares[p] = 0

\* C1 amended: such an invocation returns the list the transcription cache
\* held for the key at its lookup, and makes no native call and no audio
\* preparation.
C1_ServedFromCache ==
    \A p \in Procs :
        ReturnedAgain(p) =>
            /\ found[p].present
            /\ ret[p].segments = found[p].segments
            /\ nativeCalls[p] = 0
            /\ prepares[p] = 0

\* a second invocation returned a non-empty list from the cache
C1_Witness ==
    \E p \in Procs :
        /\ ReturnedAgain(p) /\ nativeCalls[p] = 0
        /\ Len(ret[p].segments) > 0 /\ ret[p].segments = prior[p].segments

\* C2 as claimed: the native calls of two invocations on engines created for
\* the same model path never overlap.
C2_SamePathExclusion ==
    \A p, q \in Procs :
        (p # q /\ InNative(p) /\ InNative(q))
            => engine[p].modelPath # engine[q].modelPath

\* C2 amended: the native calls of two invocations whose engines hold the
\* same model handle never overlap.
C2_SameHandleExclusion ==
    \A p, q \in Procs :
        (p # q /\ InNative(p) /\ InNative(q))
            => engine[p].model # engine[q].model

\* one invocation runs its native call while another one on the same handle
\* waits for the handle's lock
C2_Witness ==
    \E p, q \in Procs :
        /\ p # q /\ engine[p].model = engine[q].model
        /\ InNative(p) /\ pc[q] = "lock"

\* C3: the context of a handle stored in the model cache is freed only by
\* ClearModelCache while it holds the handle's lock.
C3_OnlyTeardownFrees ==
    [][\A h \in Handles :
          (ctx[h] = "live" /\ ctx'[h] = "freed"
                /\ \E path \in ModelPaths : modelCache[path] = h)
            => (tpc = "free" /\ mutex[h] = Teardown)]_vars

\* C4: the callback registry holds no slot of a caller that is not inside a
\* TranscribeWithTranslation invocation, whichever way its last one ended.
C4_RegistryCleanup ==
    \A p \in Procs :
        ~InCall(p) =>
            \A t \in DOMAIN callbackRegistry : callbackRegistry[t] # p

\* an invocation that had registered a slot and whose native call failed has
\* returned, while the other caller's slot is registered
C4_Witness ==
    \E p, q \in Procs :
        /\ pc[p] = "ready" /\ ret[p].err = "whisper_full failed"
        /\ args[p].progressCallback /\ nativeCalls[p] = 1
        /\ \E t \in DOMAIN callbackRegistry : callbackRegistry[t] = q

\* no two neighbours of a sequence are equal
NoRepeat(seq) == \A k \in 1..(Len(seq) - 1) : seq[k] # seq[k + 1]

\* C5 as claimed: the polling goroutine never sends two consecutive progress
\* messages with the same value.
C5_NoRepeatedMessage ==
    \A p \in Procs : NoRepeat(emitted[p])

\* C5 amended: the values the polling goroutine takes over from the progress
\* cell never repeat from one to the next, and the messages it sends are those
\* of them that lie in 1..100, in the same order.
C5_NoRepeatedValue ==
    \A p \in Procs :
        /\ NoRepeat(polled[p])
        /\ emitted[p] = SelectSeq(polled[p], ShouldReport)

\* two consecutive messages carry the same value, with a value that is not
\* reported read between them
C5_Witness ==
    \E p \in Procs :
        /\ Len(emitted[p]) = 2 /\ emitted[p][1] = emitted[p][2]
        /\ Len(polled[p]) = 3

\* C6: in the list a fresh run returns, the first speaker is 0 and each next
\* speaker is the previous one, plus one exactly when the engine flagged the
\* previous segment; in every returned list the speakers never decrease.
C6_SpeakerMonotonic ==
    \A p \in Procs :
        ReturnedOk(p) =>
            LET list == ret[p].segments
                turns == ctxResult[engine[p].model]
            IN  /\ Len(list) > 0 => list[1].Speaker = 0
                /\ \A k \in 2..Len(list) : list[k].Speaker >= list[k - 1].Speaker
                /\ nativeCalls[p] = 1 =>
                    /\ Len(list) = Len(turns)
                    /\ \A k \in 2..Len(list) :
                        list[k].Speaker =
                            list[k - 1].Speaker + (IF turns[k - 1] THEN 1 ELSE 0)

\* a fresh run returned two segments of different speakers
C6_Witness ==
    \E p \in Procs :
        /\ ReturnedOk(p) /\ nativeCalls[p] = 1
        /\ Len(ret[p].segments) >= 2
        /\ ret[p].segments[1].Speaker = 0 /\ ret[p].segments[2].Speaker = 1

\* C7: no step of an invocation with a translation target looks the
\* transcription cache up or changes it.
C7_TranslationBypassesCache ==
    [][\A p \in Procs :
          (/\ args'[p].translateTo # ""
           /\ InCall(p) \/ InCall(p)'
           /\ <<pc[p], i[p], args[p]>> # <<pc[p], i[p], args[p]>>')
            => (transcriptionCache' = transcriptionCache /\ ~lookedUp'[p])]_vars

\* a translating invocation ran the native engine and returned a list other
\* than the one the cache holds for its key
C7_Witness ==
    \E p \in Procs :
        /\ ReturnedOk(p) /\ args[p].translateTo = "en" /\ nativeCalls[p] = 1
        /\ transcriptionCache[CacheKeyOf(p)].present
        /\ transcriptionCache[CacheKeyOf(p)].segments # ret[p].segments

\* C8: an invocation waiting for its handle's lock is never waiting for a
\* lock held by an invocation on a different handle.
C8_NoCrossHandleBlocking ==
    \A p, q \in Procs :
        (p # q /\ engine[p].model # engine[q].model /\ pc[p] = "lock" /\ InCall(q))
            => mutex[MutexOf(engine[p].model)] # q

\* the native calls of two invocations on different model paths run at the
\* same time
C8_Witness ==
    \E p, q \in Procs :
        /\ p # q /\ engine[p].modelPath # engine[q].modelPath
        /\ InNative(p) /\ InNative(q)

\* C9 as claimed: a NewWhisperCGOEngine call that starts after the path was
\* loaded returns the handle that load created, without a native load (as
\* long as the model cache was not torn down).
C9_NoReload ==
    \A p \in Procs :
        (pc[p] = "ready" /\ priorLoaded[p] # NoHandle /\ clears = 0)
            => (engine[p].model = priorLoaded[p] /\ nativeLoads[p] = 0)

\* C9 amended: a NewWhisperCGOEngine call that finds an entry for the path at
\* its lookup returns that entry's handle, marked fromCache, without a native
\* load; a call that finds none loads.
C9_HitReturnsCachedHandle ==
    \A p \in Procs :
        pc[p] = "ready" =>
            IF priorCached[p] # NoHandle
            THEN /\ engine[p].fromCache
                 /\ engine[p].model = priorCached[p]
                 /\ nativeLoads[p] = 0
            ELSE ~engine[p].fromCache /\ nativeLoads[p] = 1

\* a call got its handle from the cache after another call had loaded it
C9_Witness ==
    \E p \in Procs :
        /\ pc[p] = "ready" /\ priorCached[p] # NoHandle /\ engine[p].fromCache
        /\ priorLoaded[p] = priorCached[p]

\* segment a was produced before segment b
Before(a, b) ==
    \/ a.Start[1] < b.Start[1]
    \/ a.Start[1] = b.Start[1] /\ a.Start[2] < b.Start[2]
\* list holds the engine's segments 0, 1, ... in this order
FromFirst(list) ==
    \A k \in 1..Len(list) : list[k].Start = CentisToSeconds(SegmentStart(k))
\* two lists hold segments of the same times at the same places
SameTimes(l1, l2) ==
    /\ Len(l1) = Len(l2)
    /\ \A k \in 1..Len(l1) : l1[k].Start = l2[k].Start /\ l1[k].End = l2[k].End

\* the entries of a list that came from one pipeline are in production order
OrderedByRun(list, tags) ==
    \A a, b \in 1..Len(list) :
        (a < b /\ tags[a] = tags[b]) => Before(list[a], list[b])
\* n entries of pipeline r
RunTags(r, n) == [k \in 1..n |-> runOf[r]]

\* the displayed list, the list a handler is about to store, and each of
\* them followed by what waits in the handler's channel, keep every
\* pipeline's segments in production order
DisplayOrdered ==
    /\ OrderedByRun(transcriptionSegments, shownRuns)
    /\ \A r \in Procs :
            /\ OrderedByRun(appending[r].list, appending[r].runs)
            /\ handler[r] \in {"running", "append"} =>
                /\ OrderedByRun(transcriptionSegments \o segmentChan[r],
                                shownRuns \o RunTags(r, Len(segmentChan[r])))
                /\ OrderedByRun(appending[r].list \o segmentChan[r],
                                appending[r].runs \o RunTags(r, Len(segmentChan[r])))

Cleanup == {"unregister", "unlock"}
Outside == {"idle", "ready"}

\* C11: an invocation prepares the audio at most once and calls the native
\* engine at most once; a nonzero native status raises an error; and once an
\* error is raised the invocation only runs its deferred cleanup and returns
\* that error, with no segment list, to the caller.
C11_NoRetry ==
    [][\A p \in Procs :
          /\ prepares'[p] <= 1 /\ nativeCalls'[p] <= 1
          /\ (InCall(p)' /\ result'[p] # 0 /\ pc'[p] # "stop")
                => ret'[p].err = "whisper_full failed"
          /\ ret'[p].err # "none" => ret'[p].segments = <<>>
          /\ (InCall(p) /\ ret[p].err # "none") =>
                /\ pc'[p] \in Cleanup \cup Outside
                /\ ret'[p] = ret[p]
                /\ prepares'[p] = prepares[p]
                /\ nativeCalls'[p] = nativeCalls[p]]_vars

\* an invocation whose native call failed has returned the error after one
\* audio preparation and one native call
C11_Witness ==
    \E p \in Procs :
        /\ pc[p] = "ready" /\ ret[p].err = "whisper_full failed"
        /\ prepares[p] = 1 /\ nativeCalls[p] = 1

\* C12: when the translation of a segment fails, TranslateSegments returns an
\* error and no segment list, and the command line exits with a non-zero code
\* and the translation error without formatting or writing the output,
\* although the transcription had returned its list.
C12_TranslationAborts ==
    cli.translation.err # "none" =>
        /\ cli.translation.segments = <<>>
        /\ cli.pc = "exited" /\ cli.exit # 0
        /\ cli.error = "Error during translation"
        /\ ~cli.written /\ cli.output = <<>>
        /\ ret[CLIMode].err = "none" /\ cli.segments = ret[CLIMode].segments

\* the translation of a transcription of two segments failed
C12_Witness ==
    /\ cli.error = "Error during translation"
    /\ Len(cli.segments) = 2 /\ cli.exit = 1

\* C13: no step removes an entry from the transcription cache, and every
\* invocation without a translation target that starts while the cache holds
\* an entry for its key goes to the replay of that entry and returns it
\* without a native call and without an audio preparation.
C13_NeverEvicts ==
    [][/\ \A k \in CacheKeys :
            transcriptionCache[k].present => transcriptionCache'[k].present
       /\ \A p \in Procs :
            /\ (/\ pc[p] \in Outside /\ InCall(p)'
                /\ args'[p].translateTo = ""
                /\ transcriptionCache[transcriptionCacheKey(
                        args'[p].audioPath, args'[p].modelID)].present)
                    => (pc'[p] = "replay" /\ found'[p].present)
            /\ found'[p].present =>
                    /\ nativeCalls'[p] = 0 /\ prepares'[p] = 0
                    /\ pc'[p] \in {"replay"} \cup Outside
                    /\ ReturnedOk(p)' => ret'[p].segments = found'[p].segments]_vars

\* an invocation replays the entry of its key while a translating invocation
\* with the same key runs the native engine
C13_Witness ==
    \E p, q \in Procs :
        /\ p # q /\ pc[p] = "replay" /\ found[p].present
        /\ args[q].translateTo = "en" /\ InNative(q)
        /\ CacheKeyOf(p) = CacheKeyOf(q)

\* the run loaded no model and transcribed nothing
NothingDone == ~cli.acquired /\ news = 0 /\ calls = 0 /\ ~cli.written

\* C14: a run with -help, with or without -input, prints the usage text and
\* exits with code 0 without loading a model or transcribing.
C14_HelpExitsZero ==
    (cli.pc # "start" /\ cli.help) =>
        /\ cli.pc = "exited" /\ cli.usage /\ cli.exit = 0
        /\ NothingDone

\* C15: a run without -input and without -help prints the usage text and
\* exits with a non-zero code without loading a model or transcribing.
C15_NoInputFails ==
    (cli.pc # "start" /\ cli.input = "" /\ ~cli.help) =>
        /\ cli.pc = "exited" /\ cli.usage /\ cli.exit # 0
        /\ NothingDone

\* a run with -model turbo and no -input has printed the usage text and
\* exited with code 1
C15_Witness ==
    /\ cli.pc = "exited" /\ cli.input = "" /\ ~cli.help /\ cli.model = "turbo"
    /\ cli.usage /\ cli.exit = 1

\* the flags of the run pass the three checks
InputExists == cli.input \in AudioPaths
ModelListed == cli.model \in {"large-v3", "turbo", "base"}
FormatListed == cli.format \in {"text", "json", "srt", "vtt"}

\* C16: the run reaches GetModelPath, NewWhisperCGOEngine and Transcribe only
\* with an input file that exists, a model among large-v3, turbo, base and a
\* format among text, json, srt, vtt; a run past the help branch that fails a
\* check exits with a non-zero code and the error of the first failing check
\* in the order input file, model, format, and has written no output file.
C16_ValidationGate ==
    /\ (cli.acquired \/ news > 0 \/ calls > 0 \/ cli.written)
            => (InputExists /\ ModelListed /\ FormatListed)
    /\ (/\ cli.pc # "start" /\ ~cli.help /\ cli.input # ""
        /\ ~(InputExists /\ ModelListed /\ FormatListed))
            => /\ cli.pc = "exited" /\ cli.exit # 0
               /\ NothingDone
               /\ cli.error = IF ~InputExists THEN "Input file does not exist"
                              ELSE IF ~ModelListed THEN "Invalid model"
                              ELSE "Invalid format"

\* a run whose model and format are valid names in another case has exited
\* with the model error
C16_Witness ==
    /\ cli.pc = "exited" /\ cli.model = "Turbo" /\ cli.format = "TEXT"
    /\ cli.error = "Invalid model" /\ cli.exit = 1

\* the lines the text output spends on a segment, and on the segments
\* before segment j of a list
LinesOf(seg) == IF HasBoth(seg) THEN 3 ELSE 1
RECURSIVE LinesBefore(_, _)
LinesBefore(list, j) ==
    IF j <= 1 THEN 0 ELSE LinesBefore(list, j - 1) + LinesOf(list[j - 1])

\* C17: in the text output the first line of a segment carries the label
\* "Speaker k+1: " (k the segment's speaker id) exactly when the segment is
\* the first one or its speaker id differs from that of the segment before;
\* otherwise it carries no label, and no other line carries one.
C17_SpeakerLabels ==
    cli.format = "text" =>
        LET list == cli.segments
            out == cli.output
        IN  /\ Len(out) = LinesBefore(list, Len(list) + 1)
            /\ \A j \in 1..Len(list) :
                LET first == LinesBefore(list, j) + 1 IN
                /\ out[first].label =
                        IF j = 1 \/ list[j].Speaker # list[j - 1].Speaker
                        THEN <<list[j].Speaker + 1>> ELSE <<>>
                /\ \A n \in (first + 1)..(first + LinesOf(list[j]) - 1) :
                        out[n].label = <<>>

\* the text output of three segments of speakers 1, 1, 0: "Speaker 2: " on
\* the first line, no label on the second, "Speaker 1: " on the third
C17_Witness ==
    /\ cli.format = "text" /\ Len(cli.segments) = 3 /\ Len(cli.output) = 3
    /\ cli.segments[1].Speaker = 1 /\ cli.segments[2].Speaker = 1
    /\ cli.segments[3].Speaker = 0
    /\ cli.output[1].label = <<2>> /\ cli.output[2].label = <<>>
    /\ cli.output[3].label = <<1>>

\* the positions of an invocation from the audio preparation to the end of
\* the segment extraction and the cache write-back
Locked == {"prepare", "read", "register", "start", "native", "stop",
           "extract", "store"}

\* C18: at most one native inference call runs on a handle, and an invocation
\* holds its handle's mutex at every position from before the native call
\* starts until after the segment extraction has ended.
C18_HandleExclusion ==
    /\ \A h \in Handles :
            Cardinality({p \in Procs : InNative(p) /\ engine[p].model = h}) <= 1
    /\ \A p \in Procs :
            pc[p] \in Locked \cup Cleanup => mutex[engine[p].model] = p

\* an invocation extracts its segments under the handle's mutex while another
\* invocation on the same handle waits for the mutex
C18_Witness ==
    \E p, q \in Procs :
        /\ p # q /\ engine[p].model = engine[q].model
        /\ pc[p] = "extract" /\ mutex[engine[p].model] = p
        /\ pc[q] = "lock"

\* p holds an engine that NewWhisperCGOEngine has returned
HoldsEngine(p) ==
    engine[p].model # NoHandle /\ pc[p] \notin {"idle", "load", "insert"}

\* C19 as claimed: all engines for one path share a single handle, and no
\* step replaces the model cache entry of a path by a different handle.
C19_SecondInserterDiscards ==
    [][/\ \A p, q \in Procs :
            (HoldsEngine(p)' /\ HoldsEngine(q)'
                /\ engine'[p].modelPath = engine'[q].modelPath)
                    => engine'[p].model = engine'[q].model
       /\ \A path \in KnownPaths :
            modelCache[path] # NoHandle => modelCache'[path] = modelCache[path]]_vars

\* C19 amended: the insert of a caller that loaded the model puts that
\* caller's handle into the model cache whatever entry the path had, the
\* caller's engine keeps the handle it loaded, not marked fromCache, and
\* nothing else changes the model cache.
C19_LastInsertWins ==
    [][/\ \A p \in Procs :
            (pc[p] = "insert" /\ pc'[p] # "insert") =>
                /\ modelCache'[engine[p].modelPath] = engine[p].model
                /\ engine'[p] = engine[p] /\ ~engine[p].fromCache
                /\ pc'[p] = "ready"
       /\ modelCache' # modelCache =>
            \E p \in Procs : pc[p] = "insert" /\ pc'[p] = "ready"]_vars

\* two callers loaded the same path and hold different handles, the cache
\* holding the handle of the one that inserted second
C19_Witness ==
    \E p, q \in Procs :
        /\ p # q /\ HoldsEngine(p) /\ HoldsEngine(q)
        /\ engine[p].modelPath = engine[q].modelPath
        /\ engine[p].model # engine[q].model
        /\ ~engine[p].fromCache /\ ~engine[q].fromCache
        /\ modelCache[engine[q].modelPath] = engine[q].model
        /\ firstLoaded[engine[p].modelPath] = engine[q].model

(* ------------------------------ the locks ------------------------------- *)
\* the callers and the teardown, as the operations that take locks
Owners == Procs \cup {Teardown}
\* the lock kinds an operation holds between two of its steps: the
\* model-cache write lock of ClearModelCache, and a handle's mutex
LocksHeld(o) ==
    (IF modelCacheMutex = o THEN {"modelCache"} ELSE {})
        \cup (IF \E h \in Handles : mutex[h] = o THEN {"handle"} ELSE {})
\* the lock kinds a step of caller p takes: the model-cache lock for the
\* lookup and the insert of NewWhisperCGOEngine, the handle's mutex, the
\* transcription-cache lock for the lookup and the write-back, the registry
\* lock for the registration, the progress handler and the cleanup
CallerLocksTaken(p) ==
    (IF \/ pc[p] = "idle" /\ pc'[p] \in {"ready", "load"} /\ news' # news
        \/ pc[p] = "insert" /\ pc'[p] = "ready"
     THEN {"modelCache"} ELSE {})
    \cup (IF pc[p] = "lock" /\ pc'[p] = "prepare" THEN {"handle"} ELSE {})
    \cup (IF \/ calls' # calls /\ pc'[p] \in {"replay", "lock"} /\ pc'[p] # pc[p]
                /\ args'[p].translateTo = ""
             \/ pc[p] = "store" /\ pc'[p] # "store" /\ ShouldCache(args[p].translateTo)
          THEN {"transcriptionCache"} ELSE {})
    \cup (IF \/ pc[p] = "register" /\ pc'[p] = "start"
             \/ pc[p] = "native" /\ events'[p] # events[p]
             \/ pc[p] = "unregister" /\ pc'[p] = "unlock"
          THEN {"registry"} ELSE {})
\* the lock kinds a step of ClearModelCache takes
TeardownLocksTaken ==
    (IF tpc = "idle" /\ tpc' = "range" THEN {"modelCache"} ELSE {})
        \cup (IF tpc = "range" /\ tpc' = "free" THEN {"handle"} ELSE {})
LocksTaken(o) == IF o = Teardown THEN TeardownLocksTaken ELSE CallerLocksTaken(o)
\* the order in which the code nests the lock kinds
LockRank(kind) ==
    IF kind = "modelCache" THEN 1 ELSE IF kind = "handle" THEN 2 ELSE 3

\* C20 as claimed: no operation ever holds more than one of the four lock
\* kinds at the same time, counting the locks it holds when it takes another.
C20_SingleLock ==
    [][\A o \in Owners : Cardinality(LocksHeld(o) \cup LocksTaken(o)) <= 1]_vars

\* C20 amended: an operation holds at most two lock kinds at once, one
\* handle mutex at most, and every lock it takes while it holds another
\* comes later in the order model-cache lock, handle mutex, registry or
\* transcription-cache lock; the last two are never held together.
C20_LockOrder ==
    [][\A o \in Owners :
        /\ Cardinality(LocksHeld(o) \cup LocksTaken(o)) <= 2
        /\ Cardinality(LocksTaken(o)) <= 1
        /\ Cardinality({h \in Handles : mutex'[h] = o}) <= 1
        /\ \A held \in LocksHeld(o), taken \in LocksTaken(o) :
                LockRank(held) < LockRank(taken)]_vars

\* the teardown holds the model-cache lock and a handle's mutex while a
\* caller that registered its callbacks and wrote its result back under its
\* own handle's mutex still holds that mutex
C20_Witness ==
    \E p \in Procs :
        /\ tpc = "free" /\ modelCacheMutex = Teardown
        /\ mutex[modelCache[tpath]] = Teardown
        /\ pc[p] = "unregister" /\ mutex[engine[p].model] = p
        /\ callbackID[p] \in DOMAIN callbackRegistry
        /\ transcriptionCache[CacheKeyOf(p)] # NoEntry

\* p is between the lock and the unlock of a call on handle h
Using(p, h) ==
    /\ engine[p].model = h
    /\ pc[p] \in {"prepare", "read", "register", "start", "native", "stop",
                  "extract", "store", "unregister", "unlock"}

\* C21: ClearModelCache frees a context only while it holds the handle's
\* mutex and while no caller is inside a call on the handle, and the model
\* cache is empty when ClearModelCache returns.
C21_TeardownWaits ==
    [][/\ (tpc = "free" /\ tpc' = "range") =>
            /\ mutex[modelCache[tpath]] = Teardown
            /\ \A p \in Procs : ~Using(p, modelCache[tpath])
            /\ ctx'[modelCache[tpath]] = "freed"
       /\ (tpc # "idle" /\ tpc' = "idle") =>
            \A path \in KnownPaths : modelCache'[path] = NoHandle]_vars

\* the teardown is over, the cache is empty, and the context it freed is the
\* one a caller loaded, finished a call on and did not close
C21_Witness ==
    \E p \in Procs :
        /\ tpc = "idle" /\ clears > 0
        /\ \A path \in KnownPaths : modelCache[path] = NoHandle
        /\ pc[p] = "ready" /\ ~engine[p].fromCache
        /\ ctx[engine[p].model] = "freed"
        /\ args[p] # NoArgs /\ ret[p].err = "none"

\* the lookup of p's invocation found an entry for its key
Hit(p) == args[p] # NoArgs /\ lookedUp[p] /\ found[p].present

FailedStep(p) == pc'[p] # pc[p] /\ (result[p] # 0 \/ result'[p] # 0)

\* C23: an invocation whose native call returned a nonzero status returns an
\* error and no segments, and none of its steps from the return of the native
\* call on delivers a segment to the segment callback or writes the
\* transcription cache.
C23_FailureNoOutput ==
    [][\A p \in Procs :
        FailedStep(p) =>
            /\ transcriptionCache' = transcriptionCache
            /\ delivered'[p] = <<>>
            /\ segments'[p] = <<>>
            /\ pc'[p] \in {"stop", "unregister", "unlock", "ready"}
            /\ pc'[p] = "ready" =>
                    ret'[p] = [err |-> "whisper_full failed", segments |-> <<>>]]_vars

\* an invocation with a segment callback has returned the inference error
\* while the transcription cache has no entry for its key
C23_Witness ==
    \E p \in Procs :
        /\ pc[p] = "ready" /\ args[p] # NoArgs
        /\ args[p].segmentCallback # "nil" /\ args[p].translateTo = ""
        /\ ret[p].err = "whisper_full failed"
        /\ nativeCalls[p] = 1
        /\ ~transcriptionCache[CacheKeyOf(p)].present

\* the errors NewWhisperCGOEngine returns before it attempts a native load
ArgumentErrors == {"model path required", "model file not found"}

\* C24: NewWhisperCGOEngine with an empty path, with a path that names no
\* file or with a file the native loader rejects returns its error and no
\* engine and leaves the model cache as it was, and a native load is
\* attempted only for a non-empty path that names a file.
C24_FailedAcquisition ==
    [][\A p \in Procs :
        /\ pc'[p] \in {"load", "insert"} => engine'[p].modelPath \notin {"", MissingPath}
        /\ (news' # news /\ newResult'[p] \in ArgumentErrors) =>
                /\ pc'[p] = "idle" /\ nativeLoads'[p] = 0
                /\ modelCache' = modelCache /\ ctx' = ctx
        /\ (pc[p] = "load" /\ pc'[p] = "idle") =>
                /\ newResult'[p] = "failed to load model"
                /\ engine'[p] = NoEngine /\ nativeLoads'[p] = 1
                /\ modelCache' = modelCache /\ ctx' = ctx
        /\ (pc[p] = "load" /\ pc'[p] # "load") =>
                (pc'[p] = "idle" \/ ctx'[engine'[p].model] = "live")]_vars

\* one caller was refused for a path that names no file, the other by the
\* native loader, and the model cache is empty
C24_Witness ==
    \E p, q \in Procs :
        /\ pc[p] = "idle" /\ newResult[p] = "model file not found"
        /\ nativeLoads[p] = 0
        /\ pc[q] = "idle" /\ newResult[q] = "failed to load model"
        /\ nativeLoads[q] = 1
        /\ \A path \in CachePaths : modelCache[path] = NoHandle

\* p is in the audio preparation of an invocation: prepareAudioFile and
\* readWAVFile
Preparing(p) == pc[p] \in {"prepare", "read"}

\* C25: an invocation that missed the cache takes the handle's mutex before
\* its audio preparation starts and holds it through the preparation, the
\* native call and the extraction, so two invocations on one handle are never
\* both in their audio preparation.
C25_LockBeforePrepare ==
    [][/\ \A p \in Procs :
            /\ prepares'[p] > prepares[p] => mutex[engine[p].model] = p
            /\ (Preparing(p) \/ pc[p] \in {"register", "start", "native", "stop", "extract"})
                    => mutex[engine[p].model] = p
            /\ (pc[p] = "lock" /\ pc'[p] # "lock") =>
                    (pc'[p] = "prepare" /\ prepares'[p] = 0 /\ nativeCalls'[p] = 0)
       /\ \A p, q \in Procs :
            (p # q /\ Preparing(p) /\ Preparing(q))
                => engine[p].model # engine[q].model]_vars

\* an invocation has prepared its audio under the handle's mutex while the
\* other caller's invocation on the same handle waits for the mutex
C25_Witness ==
    \E p, q \in Procs :
        /\ p # q /\ engine[p].model = engine[q].model
        /\ pc[p] = "read" /\ prepares[p] = 1 /\ tempWav[p]
        /\ mutex[engine[p].model] = p
        /\ pc[q] = "lock"

\* the tokens under which the registry holds a slot of p's invocation
SlotsOf(p) == {t \in DOMAIN callbackRegistry : callbackRegistry[t] = p}

\* C26 as claimed: an invocation in its native call has exactly one slot,
\* registered under its own token, with or without a progress callback.
C26_SlotPerInvocation ==
    \A p \in Procs :
        pc[p] \in {"start", "native", "stop"} =>
            /\ SlotsOf(p) = {callbackID[p]}
            /\ callbackID[p] # 0

\* C26 amended: an invocation with a progress callback has exactly one slot,
\* registered under its own token, from before its native call starts until
\* after it returns; an invocation without one has no slot and the token 0.
C26_SlotIffProgress ==
    \A p \in Procs :
        pc[p] \in {"start", "native", "stop"} =>
            IF args[p].progressCallback
            THEN SlotsOf(p) = {callbackID[p]} /\ callbackID[p] # 0
            ELSE SlotsOf(p) = {} /\ callbackID[p] = 0

\* one caller is in its native call with a slot while the other is in its
\* native call without a progress callback and without a slot
C26_Witness ==
    \E p, q \in Procs :
        /\ InNative(p) /\ args[p].progressCallback /\ SlotsOf(p) = {callbackID[p]}
        /\ InNative(q) /\ ~args[q].progressCallback /\ SlotsOf(q) = {}

\* the tokens in use: those of the registered slots and those the callers hold
TokensInUse ==
    (DOMAIN callbackRegistry \cup {callbackID[p] : p \in Procs}) \ {0}

\* C27: the token counter starts at 1 and never decreases, a registration
\* issues the counter's value, which is nonzero and greater than every token
\* in use, and no two invocations hold the same token or each other's slot.
C27_TokenUniqueness ==
    [][/\ callbackIDCounter >= 1
       /\ callbackIDCounter' >= callbackIDCounter
       /\ \A t \in TokensInUse : 0 < t /\ t < callbackIDCounter
       /\ \A p \in Procs :
            callbackID'[p] \notin {0, callbackID[p]} =>
                /\ callbackID'[p] = callbackIDCounter
                /\ callbackIDCounter' > callbackIDCounter
                /\ \A t \in TokensInUse : t < callbackID'[p]
                /\ callbackRegistry'[callbackID'[p]] = p
       /\ \A p, q \in Procs :
            (p # q /\ callbackID'[p] # 0) => callbackID'[p] # callbackID'[q]
       /\ \A p \in Procs :
            callbackID'[p] \in DOMAIN callbackRegistry'
                => callbackRegistry'[callbackID'[p]] = p]_vars

\* two slots are registered at the same time, under the tokens 1 and 2
C27_Witness ==
    \E p, q \in Procs :
        /\ p # q /\ InNative(p) /\ InNative(q)
        /\ callbackID[p] = 1 /\ callbackID[q] = 2
        /\ DOMAIN callbackRegistry = {1, 2}
        /\ callbackIDCounter = 3

\* C28: a progress event for a registered token stores its value into the
\* progress cell of that token's slot and changes nothing else, calling no
\* callback; the handler applied to a token that is not registered leaves
\* every progress cell as it is.
C28_ProgressFrame ==
    /\ [][\A p \in Procs :
            events'[p] > events[p] =>
                /\ callbackRegistry[callbackID[p]] = p
                /\ progressPercent'[p] \in ProgressValues
                /\ \A q \in Procs \ {p} : progressPercent'[q] = progressPercent[q]
                /\ UNCHANGED <<registryVars, cacheVars, modelVars, callerVars,
                               callbackID, currentSpeaker, segments, ret,
                               delivered, emitted, polled, lastProgress>>]_vars
    /\ [](\A t \in 0..callbackIDCounter, progress \in ProgressValues :
            t \notin DOMAIN callbackRegistry =>
                StoreProgress(callbackRegistry, progressPercent, t, progress)
                    = progressPercent)

\* a progress event has stored 101 into one caller's cell while the other
\* caller's slot is registered with its cell untouched
C28_Witness ==
    \E p, q \in Procs :
        /\ p # q /\ InNative(p) /\ InNative(q)
        /\ events[p] = 1 /\ progressPercent[p] = 101
        /\ callbackID[q] \in DOMAIN callbackRegistry
        /\ events[q] = 0 /\ progressPercent[q] = 0

\* C29: a polling goroutine that runs when the native call has returned
\* terminates, whatever the status; it terminates only after close(done); and
\* an invocation without a progress callback has no polling goroutine.
C29_PollingStops ==
    /\ \A p \in Procs :
            (poller[p] = "running" /\ pc[p] = "stop") ~> (poller[p] = "off")
    /\ [][\A p \in Procs :
            (poller[p] = "running" /\ poller'[p] = "off")
                => (done[p] /\ pc[p] \notin {"start", "native", "stop"})]_vars
    /\ [](\A p \in Procs :
            (InCall(p) /\ ~args[p].progressCallback) => poller[p] = "off")

\* the polling goroutines of an invocation whose native call failed and of
\* one whose native call succeeded have both terminated, the first after a
\* tick
C29_Witness ==
    \E p, q \in Procs :
        /\ p # q
        /\ args[p] # NoArgs /\ args[p].progressCallback /\ done[p]
        /\ poller[p] = "off" /\ ticks[p] > 0
        /\ ret[p].err = "whisper_full failed"
        /\ args[q] # NoArgs /\ args[q].progressCallback /\ done[q]
        /\ poller[q] = "off" /\ ret[q].err = "none" /\ nativeCalls[q] = 1

\* a stop request does not touch the engine, and a native call ends only by
\* returning
NotInterrupted ==
    /\ (~stopRequested /\ stopRequested') => UNCHANGED engineVars
    /\ \A r \in Procs : (InNative(r) /\ ~InNative(r)') => pc'[r] = "stop"

\* C30 as claimed: with a stop request pending the worker starts neither the
\* native call nor the translation, and a stop request made during the native
\* call does not interrupt it.
C30_StageBoundaries ==
    [][/\ \A r \in Procs :
            /\ nativeCalls'[r] > nativeCalls[r] => ~stopRequested
            /\ (worker[r] # "translate" /\ worker'[r] = "translate") => ~stopRequested
       /\ NotInterrupted]_vars

\* C30 amended: the worker reads the stop flag after engine.Transcribe has
\* returned and after the translation has returned, and nowhere else.  With
\* the flag set at the first read it starts no translation and sends the
\* transcribed segments; with the flag set at the second read it sends the
\* transcribed segments instead of the translated ones.  A stop request made
\* before or during the native call changes nothing in the engine, and the
\* call runs to its return.
C30_StopChecks ==
    [][/\ \A r \in Procs :
            /\ (worker[r] # "translate" /\ worker'[r] = "translate") => ~stopRequested
            /\ (worker[r] = "run" /\ worker'[r] = "exit" /\ ret[r].err = "none"
                    /\ stopRequested)
                => doneChan'[r] = Entry(ret[r].segments)
            /\ (worker[r] = "translate" /\ worker'[r] = "exit" /\ stopRequested
                    /\ errorChan' = errorChan)
                => doneChan'[r] = Entry(transcribed[r])
            /\ (InCall(r) /\ pc'[r] # pc[r]) => stopRequested' = stopRequested
       /\ NotInterrupted]_vars

\* with a stop request pending, a native call has been made and has returned
\* its segment, and the worker has not yet read the flag
C30_Witness ==
    \E r \in Procs :
        /\ stopRequested /\ worker[r] = "run"
        /\ pc[r] = "ready" /\ nativeCalls[r] = 1
        /\ ret[r].err = "none" /\ Len(ret[r].segments) = MaxStopSegs

(* ---------------------- TranslateSegments on lists ---------------------- *)
MaxTranslateSegs == 3
\* segment k of a list handed to TranslateSegments: as MakeSegment builds it,
\* or with the empty text a native segment may carry
TranslateInput(k, speaker, empty) ==
    LET seg == MakeSegment(RawSegments([j \in 1..k |-> FALSE]), k - 1, speaker)
    IN  IF empty THEN [seg EXCEPT !.Text = <<>>] ELSE seg
TranslateInputs(maxLen, maxSpeaker) ==
    UNION {{[k \in 1..n |-> TranslateInput(k, choice[k][1], choice[k][2])] :
                choice \in [1..n -> (0..maxSpeaker) \X BOOLEAN]} :
           n \in 0..maxLen}

\* the call of TranslateSegments on a segment list
TranslateList(list, targetLang, failAt) ==
    /\ cli.pc = "start"
    /\ cli.lang = ""
    /\ cli' = [cli EXCEPT !.segments = list,
                          !.lang = targetLang,
                          !.translation = TranslateSegments(list, targetLang, failAt)]
    /\ UNCHANGED <<engineVars, guiVars, modelStore>>

\* TranslateSegments on every segment list up to MaxTranslateSegs segments
NextTranslate ==
    \E list \in TranslateInputs(MaxTranslateSegs, MaxSpeaker),
       failAt \in 0..MaxTranslateSegs :
        TranslateList(list, "en", failAt)

SpecTranslate == Init /\ [][NextTranslate]_vars

Sent(r) == {r.requests[a] : a \in DOMAIN r.requests}
WithText(list, upTo) == {k \in 1..upTo : list[k].Text # <<>>}

\* C31: TranslateSegments goes through the segments in index order; it sends
\* one request to the translation service for each segment whose text is not
\* empty, in increasing index order, and none for a segment with an empty
\* text; without a failure it returns as many segments as it was given, with
\* the same start and end times at each index; after the first failing
\* request no later segment is sent.
C31_TranslationLoop ==
    cli.lang # "" =>
        LET list == cli.segments
            r == cli.translation
        IN  /\ \A a, b \in DOMAIN r.requests :
                    a < b => r.requests[a] < r.requests[b]
            /\ r.err = "none" =>
                    /\ Sent(r) = WithText(list, Len(list))
                    /\ Len(r.segments) = Len(list)
                    /\ \A k \in 1..Len(list) :
                            /\ r.segments[k].Start = list[k].Start
                            /\ r.segments[k].End = list[k].End
            /\ r.err # "none" =>
                    /\ r.requests # <<>>
                    /\ Sent(r) = WithText(list, r.requests[Len(r.requests)])
                    /\ r.requests[Len(r.requests)] < Len(list) + 1

\* C31 as claimed: without a failure the service is called once for every
\* segment, in index order
C31_OncePerSegment ==
    (cli.lang # "" /\ cli.translation.err = "none") =>
        cli.translation.requests = [k \in 1..Len(cli.segments) |-> k]

C31_Witness ==
    /\ cli.lang # ""
    /\ cli.translation.err = "none"
    /\ Len(cli.segments) = 3
    /\ cli.segments[2].Text = <<>>
    /\ cli.translation.requests = <<1, 3>>

\* C32: no native call is issued on a native context that was freed before:
\* whenever an invocation enters whisper_full, the context of its engine's
\* handle has not been freed.
C32_NoUseAfterFree ==
    [][\A p \in Procs :
            (pc[p] = "start" /\ pc'[p] = "native") =>
                ctx[engine[p].model] # "freed"]_vars

\* p's current or last invocation had no translation target and made the
\* native inference call
Inferred(p) ==
    args[p] # NoArgs /\ args[p].translateTo = "" /\ nativeCalls[p] > 0

\* C33: an invocation without a translation target makes the native
\* inference call exactly when its own cache lookup, made before it takes the
\* handle's mutex, found no entry, and it makes the call at most once; the
\* lookup is not repeated under the mutex, so of two concurrent invocations
\* with one key that both looked up before either stored, both make the call,
\* one after the other.
C33_InferenceIffMiss ==
    \A p \in Procs :
        /\ Inferred(p) => (lookedUp[p] /\ ~found[p].present /\ nativeCalls[p] = 1)
        /\ (args[p] # NoArgs /\ args[p].translateTo = "" /\ ~found[p].present
                /\ pc[p] \in {"stop", "extract", "store", "ready"}
                /\ ret[p].err = "none") => nativeCalls[p] = 1
        /\ \A q \in Procs \ {p} :
                (InNative(p) /\ InNative(q)) => engine[p].model # engine[q].model

\* C33 as claimed: of two invocations with the same key and no translation
\* target that run concurrently on one handle, only one makes the native
\* inference call; the other is served from the entry the first one stored.
C33_SingleInference ==
    \A p, q \in Procs :
        (/\ p # q
         /\ Inferred(p) /\ ReturnedOk(p)
         /\ engine[q].model # NoHandle
         /\ engine[q].modelPath = engine[p].modelPath
         /\ args[q] # NoArgs /\ args[q].translateTo = ""
         /\ CacheKeyOf(q) = CacheKeyOf(p)
         /\ lookedUp[q] /\ ~found[q].present
         /\ transcriptionCache[CacheKeyOf(q)].present)
            => nativeCalls[q] = 0

\* the second invocation is inside whisper_full although the first has
\* stored the entry of their key and returned
C33_Witness ==
    \E p, q \in Procs :
        /\ p # q
        /\ Inferred(p) /\ ReturnedOk(p)
        /\ Inferred(q) /\ InNative(q)
        /\ CacheKeyOf(q) = CacheKeyOf(p)
        /\ transcriptionCache[CacheKeyOf(q)].present
        /\ ~found[q].present

(* ------------------- progress of concurrent operations ------------------ *)
MaxLiveNews == 2
MaxLiveCalls == 2
MaxLiveEvents == 1

\* a step inside an operation of caller p that needs no lock to be granted
RunStep(p) ==
    \/ LoadModel(p, TRUE)
    \/ \E ok \in BOOLEAN : PrepareAudioFile(p, ok)
    \/ ReadWAVFile(p, TRUE, RequiredSampleRate)
    \/ RegisterCallbacks(p)
    \/ StartWhisperFull(p)
    \/ WhisperFullReturns(p, 0, <<>>)
    \/ StopPolling(p)
    \/ StoreTranscription(p)
    \/ UnregisterCallbacks(p)
    \/ UnlockModel(p)
    \/ PollExit(p)

\* a step of ClearModelCache after its start
ClearStep ==
    \/ \E path \in ModelPaths : ClearLockModel(path)
    \/ ClearFreeModel
    \/ ClearReturn

NextLive ==
    \/ \E p \in Procs : NewWhisperCGOEngine(p, ModelPathOf("turbo"), MaxLiveNews)
    \/ \E p \in Procs : StoreInCache(p)
    \/ ClearModelCache(MaxClears)
    \/ ClearStep
    \/ \E p \in Procs, audioPath \in AudioPaths :
            TranscribeWithTranslation(p, audioPath, "en", TRUE, "nil", MaxLiveCalls)
    \/ \E p \in Procs : LockModel(p)
    \/ \E p \in Procs : whisper_progress_callback_go(p, 50, MaxLiveEvents)
    \/ \E p \in Procs : RunStep(p)

\* every audio preparation, model load and native call returns, and a caller
\* or a teardown that can go on does go on; a waiter gets a lock that stays
\* free
SpecLive ==
    /\ Init /\ [][NextLive]_vars
    /\ \A p \in Procs : WF_vars(RunStep(p) \/ StoreInCache(p) \/ LockModel(p))
    /\ WF_vars(ClearStep)

\* caller p is inside NewWhisperCGOEngine or Transcribe
Busy(p) == pc[p] \notin {"idle", "ready"}

\* C34: while an operation is in progress some step can be taken, and every
\* NewWhisperCGOEngine, Transcribe and ClearModelCache that was started
\* returns, given that preparations, loads and native calls return and that
\* locks are granted fairly.
C34_Progress ==
    /\ []((tpc # "idle" \/ \E p \in Procs : Busy(p)) => ENABLED <<NextLive>>_vars)
    /\ \A p \in Procs : Busy(p) ~> ~Busy(p)
    /\ (tpc # "idle") ~> (tpc = "idle")

\* ClearModelCache holds the cache lock and waits for the handle's mutex,
\* which one caller holds inside whisper_full after a progress event, while
\* the other caller waits for the same mutex
C34_Witness ==
    \E p, q \in Procs :
        /\ tpc = "range" /\ modelCacheMutex = Teardown
        /\ pc[p] = "lock" /\ engine[p].model = engine[q].model
        /\ pc[q] = "native" /\ events[q] > 0 /\ mutex[engine[q].model] = q

(* ------------------- the exit paths of one invocation ------------------- *)
MaxExitNews == 2
MaxExitCalls == 2

NextExit ==
    \/ \E p \in Procs : NewWhisperCGOEngine(p, ModelPathOf("turbo"), MaxExitNews)
    \/ \E p \in Procs : LoadModel(p, TRUE)
    \/ \E p \in Procs : StoreInCache(p)
    \/ \E p \in Procs, audioPath \in AudioPaths, progressCallback \in BOOLEAN :
            TranscribeWithTranslation(p, audioPath, "en", progressCallback, "nil",
                                      MaxExitCalls)
    \/ \E p \in Procs : LockModel(p)
    \/ \E p \in Procs, ok \in BOOLEAN : PrepareAudioFile(p, ok)
    \/ \E p \in Procs, ok \in BOOLEAN, sampleRate \in SampleRates :
            ReadWAVFile(p, ok, sampleRate)
    \/ \E p \in Procs : RegisterCallbacks(p)
    \/ \E p \in Procs : StartWhisperFull(p)
    \/ \E p \in Procs : PollExit(p)
    \/ \E p \in Procs, status \in {0, 1} : WhisperFullReturns(p, status, <<>>)
    \/ \E p \in Procs : StopPolling(p)
    \/ \E p \in Procs : StoreTranscription(p)
    \/ \E p \in Procs : UnregisterCallbacks(p)
    \/ \E p \in Procs : UnlockModel(p)

SpecExit == Init /\ [][NextExit]_vars

\* the handle mutexes caller p holds
HeldBy(p) == {h \in Handles : mutex[h] = p}

\* C35: an invocation that is not in progress holds no handle mutex and has
\* no callback slot, whatever way it returned; a slot exists only while its
\* invocation holds the mutex of its handle, so the slot is removed before
\* the mutex is released; and the step by which an invocation returns frees
\* the mutex it held, so the next invocation on the handle can take it.
C35_LockReleased ==
    /\ [](\A p \in Procs :
            /\ ~InCall(p) => (HeldBy(p) = {} /\ SlotsOf(p) = {})
            /\ SlotsOf(p) # {} => HeldBy(p) = {engine[p].model})
    /\ [][\A p \in Procs :
            (InCall(p) /\ ~InCall(p)') =>
                \A h \in HeldBy(p) : mutex'[h] = NoOwner]_vars

\* one caller has returned the native failure after holding a slot, the other
\* has taken the same handle's mutex and got as far as a wrong sample rate
C35_Witness ==
    \E p, q \in Procs :
        /\ pc[p] = "ready" /\ ret[p].err = "whisper_full failed"
        /\ args[p].progressCallback
        /\ engine[q].model = engine[p].model
        /\ pc[q] = "unlock" /\ ret[q].err = "sample rate must be 16000 Hz"
        /\ HeldBy(q) = {engine[q].model}

\* C36: once an invocation has closed the done channel of its polling
\* goroutine, the goroutine sends no further message to the progress
\* callback.
C36_NoLateProgress ==
    [][\A p \in Procs :
            (done[p] /\ poller[p] = "running") => emitted'[p] = emitted[p]]_vars

\* C37: the temporary WAV file of an invocation exists only while the
\* invocation is between the audio preparation and its return, and it is gone
\* once the invocation has returned, after a conversion failure, a read
\* failure, a wrong sample rate, a native failure and a success alike.
C37_TempRemoved ==
    \A p \in Procs :
        /\ ~InCall(p) => ~tempWav[p]
        /\ tempWav[p] => pc[p] \in {"read", "register", "start", "native", "stop",
                                    "extract", "store", "unregister", "unlock"}
        /\ pc[p] \in {"read", "start", "native", "stop"} => tempWav[p]

\* one caller has returned a read failure and the other a native failure,
\* both after a successful preparation, and neither file is left
C37_Witness ==
    \E p, q \in Procs :
        /\ pc[p] = "ready" /\ ret[p].err = "failed to read audio"
        /\ prepares[p] = 1 /\ ~tempWav[p]
        /\ pc[q] = "ready" /\ ret[q].err = "whisper_full failed"
        /\ prepares[q] = 1 /\ ~tempWav[q]

\* C38: each segment returned by TranslateSegments carries the speaker id of
\* the input segment at the same index.
C38_SpeakersPreserved ==
    (cli.lang # "" /\ cli.translation.err = "none") =>
        \A k \in 1..Len(cli.segments) :
            cli.translation.segments[k].Speaker = cli.segments[k].Speaker

\* C39: at most one transcription pipeline is in progress at any time, and
\* workerRunning is true for as long as one is.
C39_SingleWorker ==
    \A r \in Procs :
        worker[r] = "run" =>
            /\ workerRunning
            /\ \A q \in Procs \ {r} : worker[q] \notin {"spawn", "run"}

(* ----------------------------- GetModelPath ----------------------------- *)
MaxGetCalls == 3
\* what a download attempt may do: fail before the destination file is
\* created, fail after os.Create part-way through the body, or finish
Downloads == {"refused", "cut", "complete"}

\* the destination file after downloadModelFromHuggingFace or
\* downloadModelDirect: os.Create truncates it, the loop fills it, and no
\* path removes it
Downloaded(state, outcome) ==
    IF outcome = "refused" THEN state
    ELSE IF outcome = "cut" THEN "partial"
    ELSE "complete"

\* GetModelPath(modelID, progressCallback), with the outcome of the download
\* from HuggingFace and of the direct download that is tried for the base
\* model; of possiblePaths only the download destination is followed
GetModelPath(modelID, huggingFace, direct) ==
    /\ modelStore.calls < MaxGetCalls
    /\ LET called == [modelStore EXCEPT !.calls = @ + 1, !.modelID = modelID]
           state == modelStore.file[modelID]
           first == Downloaded(state, huggingFace)
           fallback == huggingFace # "complete" /\ modelID = "base"
           final == IF fallback THEN Downloaded(first, direct) ELSE first
           ok == IF fallback THEN direct = "complete" ELSE huggingFace = "complete"
       IN  modelStore' =
             IF modelID \notin validModels
             THEN [called EXCEPT !.path = "", !.err = "unsupported model",
                                 !.served = "none"]
             ELSE IF state # "absent"
             THEN [called EXCEPT !.path = ModelPathOf(modelID), !.err = "none",
                                 !.served = state]
             ELSE IF ok
             THEN [called EXCEPT !.file[modelID] = final,
                                 !.path = ModelPathOf(modelID), !.err = "none",
                                 !.served = final]
             ELSE [called EXCEPT !.file[modelID] = final, !.path = "",
                                 !.err = "failed to download model",
                                 !.served = "none"]
    /\ UNCHANGED <<engineVars, guiVars, cli>>

NextDownload ==
    \E modelID \in validModels \cup {"tiny"}, huggingFace, direct \in Downloads :
        GetModelPath(modelID, huggingFace, direct)

SpecDownload == Init /\ [][NextDownload]_vars

\* C40: a GetModelPath call that returns a path returns the path of a
\* completely downloaded model file, never of a file a failed download left
\* incomplete.
C40_NoPartialModel ==
    (modelStore.calls > 0 /\ modelStore.err = "none") =>
        modelStore.served = "complete"

====
